---- MODULE Spec2Model ----
(***************************************************************************)
(* A model of bat, the battery charging-threshold utility: the kernel      *)
(* version gate, the threshold validity check, and the persistence         *)
(* controllers that write/enable and remove/disable the systemd units.     *)
(*                                                                         *)
(* Strings are sequences of one-character strings, so that every parser    *)
(* (fmt.Sscanf, strconv.Atoi, regexp \d+, bytes.TrimSpace) is modelled by   *)
(* what it does to the characters.                                         *)
(***************************************************************************)
EXTENDS Integers, Sequences, FiniteSets, TLC

VARIABLES
    \* ---- pure-function harness ----
    kver,        \* kernel release string handed to the version gate
    kres,        \* result of the version gate, per implementation
    tval,        \* integer handed to the threshold validity check
    tok,         \* result of the validity check, per implementation
    \* ---- the host ----
    sysd,        \* what `systemctl --version` prints
    shellPath,   \* where exec.LookPath finds the shell, NoShell if nowhere
    thresholdFile, \* contents of charge_control_end_threshold, NoFile if absent
    denied,      \* units whose file the process may neither create nor remove
    broken,      \* units on which systemctl enable/disable fails outright
    targets,     \* the target units `systemctl list-units` reports, in order
    unitFile,    \* the unit files of the service directory
    enabled,     \* the units systemd has enabled
    \* ---- one command of the persistence controller ----
    impl,        \* which controller runs: "services", "systemd" or "sync"
    op,          \* "Write", "Delete" or "none"
    ctl,         \* the controller: "idle", "collect" or "returned"
    ret,         \* what the controller returned
    later,       \* the fan-outs still to run after the current one
    recvd,       \* the results the controller has received, in order
    errs,        \* the buffered result channel
    tpc,         \* the steps each task has still to take
    tres,        \* the result each task is about to send
    cfg,         \* the shell and threshold the tasks of this command embed
    calls,       \* the commands run so far
    prev,        \* the command that ran before this one and its result
    proc,        \* the last command line run: what it printed, its status
    supply,      \* /sys/class/power_supply: the battery directories and their files
    sudo,        \* whether the process may write the files of the batteries
    argv,        \* the arguments of the last command line run
    quit         \* what console.quit is bound to: "os.Exit" or the "spy" of the tests

pureVars == <<kver, kres, tval, tok>>
hostVars == <<sysd, shellPath, thresholdFile, denied, broken, targets>>
fsVars == <<unitFile, enabled>>
callVars == <<impl, op, ctl, ret, later, recvd, errs, tpc, tres, cfg, calls, prev>>
devVars == <<supply, sudo, argv, quit>>
mainVars == <<proc, devVars>>
vars == <<pureVars, hostVars, fsVars, callVars, mainVars>>

-----------------------------------------------------------------------------
(* Characters and the parsers of the Go standard library the code calls.   *)

DigitChars == <<"0", "1", "2", "3", "4", "5", "6", "7", "8", "9">>

IsDigit(c) == \E i \in 1..10 : DigitChars[i] = c

DigitVal(c) == (CHOOSE i \in 1..10 : DigitChars[i] = c) - 1

IsSpace(c) == c \in {" ", "\n", "\t"}

\* The value of a non-empty run of decimal digits, most significant first.
RECURSIVE DigitsVal(_)
DigitsVal(ds) ==
    IF ds = <<>> THEN 0
    ELSE DigitsVal(SubSeq(ds, 1, Len(ds) - 1)) * 10 + DigitVal(ds[Len(ds)])

\* The longest prefix of s made of digits.
RECURSIVE DigitPrefix(_)
DigitPrefix(s) ==
    IF s = <<>> \/ ~IsDigit(Head(s)) THEN <<>>
    ELSE <<Head(s)>> \o DigitPrefix(Tail(s))

\* s without its leading white space.
RECURSIVE SkipSpace(_)
SkipSpace(s) ==
    IF s # <<>> /\ IsSpace(Head(s)) THEN SkipSpace(Tail(s)) ELSE s

\* The decimal digits of a natural number (strconv.Itoa on n >= 0).
RECURSIVE Itoa(_)
Itoa(n) ==
    IF n < 10 THEN <<DigitChars[n + 1]>>
    ELSE Itoa(n \div 10) \o <<DigitChars[(n % 10) + 1]>>

\* One %d verb of fmt.Sscanf: skip leading space, accept one sign, then
\* require at least one digit and consume the whole run of digits.
ScanInt(s) ==
    LET t    == SkipSpace(s)
        neg  == t # <<>> /\ Head(t) = "-"
        sgn  == t # <<>> /\ Head(t) \in {"+", "-"}
        u    == IF sgn THEN Tail(t) ELSE t
        ds   == DigitPrefix(u)
    IN  IF ds = <<>>
        THEN [ok |-> FALSE, val |-> 0, rest |-> u]
        ELSE [ok   |-> TRUE,
              val  |-> IF neg THEN 0 - DigitsVal(ds) ELSE DigitsVal(ds),
              rest |-> SubSeq(u, Len(ds) + 1, Len(u))]

\* fmt.Sscanf(s, "%d.%d", &maj, &min): two integers separated by a literal
\* dot; whatever follows the second integer is left unread.
ScanMajMin(s) ==
    LET a == ScanInt(s)
    IN  IF ~a.ok \/ a.rest = <<>> \/ Head(a.rest) # "."
        THEN [ok |-> FALSE, maj |-> 0, min |-> 0]
        ELSE LET b == ScanInt(Tail(a.rest))
             IN  IF ~b.ok THEN [ok |-> FALSE, maj |-> 0, min |-> 0]
                 ELSE [ok |-> TRUE, maj |-> a.val, min |-> b.val]

-----------------------------------------------------------------------------
(* The kernel version gate and the threshold validity check.               *)

requiredKernelNoMinor(ver) ==
    LET p == ScanMajMin(ver)
    IN  IF ~p.ok THEN [err |-> TRUE, ok |-> FALSE]
        ELSE [err |-> FALSE, ok |-> p.maj >= 5]

\* cli.requiredKernel: "ok" is the boolean result, "err" a parse failure.
requiredKernel(ver) ==
    LET p == ScanMajMin(ver)
    IN  IF ~p.ok THEN [err |-> TRUE, ok |-> FALSE]
        ELSE [err |-> FALSE, ok |-> (p.maj > 5 \/ (p.maj = 5 /\ p.min >= 4))]

\* main_linux.go, threshold set: the release is rejected when
\* maj <= 5 && (maj != 5 || min < 4); a parse failure panics.
mainKernelGate(ver) ==
    LET p == ScanMajMin(ver)
    IN  IF ~p.ok THEN [err |-> TRUE, ok |-> FALSE]
        ELSE [err |-> FALSE,
              ok  |-> ~(p.maj <= 5 /\ (p.maj # 5 \/ p.min < 4))]

validOffByOne(v) == v >= 0 /\ v <= 100

\* threshold.IsValid
IsValid(v) == v >= 1 /\ v <= 100

\* cli.valid
valid(threshold) == threshold >= 1 /\ threshold <= 100

-----------------------------------------------------------------------------
(* Inputs of the pure-function harness.                                    *)

MaxMajor == 7
MaxMinor == 12
BelowZero == 3
MaxInt == 103

\* What may follow the minor number of a kernel release.
ReleaseSuffixes ==
    { <<>>,
      <<".", "0">>,
      <<".", "1", "9", "6">>,
      <<"-", "r", "c", "5">>,
      <<".", "0", "-", "2", "-", "a", "m", "d", "6", "4">>,
      <<"+">> }

Release(maj, min, suf) == Itoa(maj) \o <<".">> \o Itoa(min) \o suf

WellFormedReleases ==
    { Release(maj, min, suf) :
        maj \in 0..MaxMajor, min \in 0..MaxMinor, suf \in ReleaseSuffixes }

\* Releases without a major.minor prefix: the scan fails on them.
MalformedReleases ==
    { <<>>, <<"5">>, <<"5", ".">>, <<"5", "-", "4">>, <<"v", "5", ".", "4">>,
      <<".", "4">> }

Releases == WellFormedReleases \cup MalformedReleases

ThresholdInputs == (0 - BelowZero)..MaxInt

NoResult == [err |-> FALSE, ok |-> FALSE, done |-> FALSE]

Gate(r) == [err |-> r.err, ok |-> r.ok, done |-> TRUE]

\* The harness of the pure functions leaves the host and the controller alone.
HostIdle ==
    /\ sysd = <<>> /\ shellPath = <<>> /\ thresholdFile = <<>>
    /\ denied = {} /\ broken = {} /\ unitFile = <<>> /\ enabled = {}
    /\ targets = <<>> /\ proc = <<>>
    /\ supply = <<>> /\ sudo = TRUE /\ argv = <<>> /\ quit = "os.Exit"
    /\ impl = "none" /\ op = "none" /\ ctl = "idle"
    /\ ret = [kind |-> "none", unit |-> "-"]
    /\ later = <<>> /\ recvd = <<>> /\ errs = <<>> /\ tpc = <<>> /\ tres = <<>>
    /\ cfg = <<>> /\ calls = 0 /\ prev = <<>>

\* One run exercises either a release string or an integer.
InitPure ==
    /\ \/ kver \in Releases /\ tval = 0
       \/ kver = <<>> /\ tval \in ThresholdInputs
    /\ kres = [cli |-> NoResult, main |-> NoResult]
    /\ tok = [done |-> FALSE, IsValid |-> FALSE, valid |-> FALSE]
    /\ HostIdle

\* The threshold command evaluates the gate on the release of the host.
CheckKernel ==
    /\ ~kres.cli.done
    /\ kres' = [cli |-> Gate(requiredKernel(kver)), main |-> Gate(mainKernelGate(kver))]
    /\ UNCHANGED <<kver, tval, tok, hostVars, fsVars, callVars, mainVars>>

CheckValid ==
    /\ ~tok.done
    /\ tok' = [done |-> TRUE, IsValid |-> IsValid(tval), valid |-> valid(tval)]
    /\ UNCHANGED <<kver, kres, tval, hostVars, fsVars, callVars, mainVars>>

NextPure == CheckKernel \/ CheckValid

SpecPure == InitPure /\ [][NextPure]_vars

-----------------------------------------------------------------------------
(* C9, C10: the pure functions.                                            *)

RequiredRelease(maj, min) == maj > 5 \/ (maj = 5 /\ min >= 4)

\* C9: the kernel version gate (cli.requiredKernel and the inline gate of
\* main_linux.go) accepts a release whose numeric prefix is major.minor if
\* and only if major > 5 or (major = 5 and minor >= 4), whatever follows the
\* minor number, and never reports a parse error on such a release.
C9_KernelGateIff ==
    \A maj \in 0..MaxMajor, min \in 0..MaxMinor, suf \in ReleaseSuffixes :
        (kres.cli.done /\ kver = Release(maj, min, suf)) =>
            /\ ~kres.cli.err /\ ~kres.main.err
            /\ kres.cli.ok = RequiredRelease(maj, min)
            /\ kres.main.ok = RequiredRelease(maj, min)

\* A release candidate of the first accepted minor has been accepted, and
\* the gate has also run on releases it rejects.
C9_Witness ==
    /\ kres.cli.done
    /\ kver = Release(5, 4, <<"-", "r", "c", "5">>)
    /\ kres.cli.ok /\ kres.main.ok

\* C10: for every integer v the validity check (threshold.IsValid and
\* cli.valid) returns true exactly when v is one of 1..100.
C10_ValidIff ==
    tok.done =>
        /\ tok.IsValid = (tval \in 1..100)
        /\ tok.valid = (tval \in 1..100)

\* The check has run on the upper boundary and accepted it.
C10_Witness == tok.done /\ tval = 100 /\ tok.IsValid /\ tok.valid

-----------------------------------------------------------------------------
(* More of the standard library: strconv.Atoi, regexp \d+, bytes.TrimSpace. *)

\* s without its leading zeros.
RECURSIVE SkipZeros(_)
SkipZeros(s) ==
    IF s # <<>> /\ Head(s) = "0" THEN SkipZeros(Tail(s)) ELSE s

\* Whether the digits a, read as a number, exceed the digits b of the same
\* length.
RECURSIVE DigitsGreater(_, _)
DigitsGreater(a, b) ==
    IF a = <<>> THEN FALSE
    ELSE IF DigitVal(Head(a)) # DigitVal(Head(b))
    THEN DigitVal(Head(a)) > DigitVal(Head(b))
    ELSE DigitsGreater(Tail(a), Tail(b))

\* The digits of 1<<63 - 1, the largest int, and of 1<<63.
MaxInt64 == <<"9", "2", "2", "3", "3", "7", "2", "0", "3", "6", "8", "5", "4", "7", "7", "5", "8", "0", "7">>
MinInt64 == <<"9", "2", "2", "3", "3", "7", "2", "0", "3", "6", "8", "5", "4", "7", "7", "5", "8", "0", "8">>

\* Whether the digits u, negated if neg, do not fit an int (strconv.ErrRange).
OutOfInt(u, neg) ==
    LET z == SkipZeros(u)
    IN  \/ Len(z) > Len(MaxInt64)
        \/ Len(z) = Len(MaxInt64)
           /\ DigitsGreater(z, IF neg THEN MinInt64 ELSE MaxInt64)

\* strconv.Atoi: an optional sign followed by digits only, and at least one
\* (strconv.ErrSyntax otherwise); "range" tells a number that does not fit
\* an int (strconv.ErrRange).
Atoi(s) ==
    LET sgn == s # <<>> /\ Head(s) \in {"+", "-"}
        neg == s # <<>> /\ Head(s) = "-"
        u   == IF sgn THEN Tail(s) ELSE s
    IN  IF u = <<>> \/ DigitPrefix(u) # u
        THEN [ok |-> FALSE, val |-> 0, range |-> FALSE]
        ELSE IF OutOfInt(u, neg)
        THEN [ok |-> FALSE, val |-> 0, range |-> TRUE]
        ELSE [ok |-> TRUE,
              val |-> IF neg THEN 0 - DigitsVal(u) ELSE DigitsVal(u),
              range |-> FALSE]

\* regexp.MustCompile(`\d+`).Find: the leftmost run of digits, empty if none.
RECURSIVE FindDigits(_)
FindDigits(s) ==
    IF s = <<>> THEN <<>>
    ELSE IF IsDigit(Head(s)) THEN DigitPrefix(s)
    ELSE FindDigits(Tail(s))

RECURSIVE TrimRight(_)
TrimRight(s) ==
    IF s # <<>> /\ IsSpace(s[Len(s)]) THEN TrimRight(SubSeq(s, 1, Len(s) - 1))
    ELSE s

\* bytes.TrimSpace / strings.TrimSpace
TrimSpace(s) == TrimRight(SkipSpace(s))

-----------------------------------------------------------------------------
(* The units, the errors and the host.                                     *)

\* services.units: the events, each with its systemd target.
units ==
    << [Event |-> "boot", Target |-> "multi-user"],
       [Event |-> "hibernation", Target |-> "hibernate"],
       [Event |-> "hybridsleep", Target |-> "hybrid-sleep"],
       [Event |-> "sleep", Target |-> "suspend"],
       [Event |-> "suspendthenhibernate", Target |-> "suspend-then-hibernate"] >>

Events == { units[i].Event : i \in 1..Len(units) }

N == Len(units)

TargetOfFirst(e) == units[1].Target

\* The target of an event, as the template reads it from the unit.
TargetOf(e) == units[CHOOSE i \in 1..N : units[i].Event = e].Target

NoShell == <<>>
NoFile == <<"<", "a", "b", "s", "e", "n", "t", ">">>
NoOutput == <<"<", "f", "a", "i", "l", "e", "d", ">">>

\* Results and errors. A task's error names the unit it is about, as the
\* *fs.PathError and *exec.ExitError values of the code do.
Nil == [kind |-> "nil", unit |-> "-"]
Err(kind) == [kind |-> kind, unit |-> "-"]
UnitErr(kind, e) == [kind |-> kind, unit |-> e]
NoRet == [kind |-> "none", unit |-> "-"]

\* The states of a unit file.
Absent == [state |-> "absent", Shell |-> <<>>, Target |-> "-", Threshold |-> 0]
Empty == [state |-> "empty", Shell |-> <<>>, Target |-> "-", Threshold |-> 0]
Rendered(shell, target, threshold) ==
    [state |-> "rendered", Shell |-> shell, Target |-> target, Threshold |-> threshold]

\* systemd knows a unit when its file exists or it is enabled; on any other
\* unit `systemctl disable` fails with "... does not exist.".
KnownIn(e, uf, en) == uf[e].state # "absent" \/ e \in en

Known(e) == KnownIn(e, unitFile, enabled)

-----------------------------------------------------------------------------
(* The preconditions of persist.                                           *)

MinSystemd == 244

systemdAcceptsAny(out) ==
    IF out = NoOutput THEN [err |-> Err("ExitError"), ok |-> FALSE]
    ELSE LET a == Atoi(FindDigits(out))
         IN  IF ~a.ok THEN [err |-> Err("ErrSyntax"), ok |-> FALSE]
             ELSE [err |-> Nil, ok |-> TRUE]

\* systemd(): the version is the first run of digits of the output.
systemd(out) ==
    IF out = NoOutput THEN [err |-> Err("ExitError"), ok |-> FALSE]
    ELSE LET a == Atoi(FindDigits(out))
         IN  IF ~a.ok THEN [err |-> Err("ErrSyntax"), ok |-> FALSE]
             ELSE [err |-> Nil, ok |-> ~(a.val < MinSystemd)]

\* bash(): exec.LookPath("bash")
bash(path) ==
    IF path = NoShell THEN [err |-> Err("ErrBashNotFound"), path |-> NoShell]
    ELSE [err |-> Nil, path |-> path]

\* variable.Get / power.Get: when find fails the error is dropped and the
\* empty string is returned with a nil error.
Get(file) ==
    IF file = NoFile THEN [err |-> Nil, val |-> <<>>]
    ELSE [err |-> Nil, val |-> TrimSpace(file)]

Failed(err) == [err |-> err, shell |-> NoShell, val |-> 0]

\* Service.Write up to the fan-out: systemd(), bash(), variable.Get,
\* strconv.Atoi, threshold.IsValid (log.Fatalf ends the process).
ServiceWritePrelude ==
    LET sd == systemd(sysd)
        sh == bash(shellPath)
        g  == Get(thresholdFile)
        a  == Atoi(g.val)
    IN  IF sd.err # Nil THEN Failed(sd.err)
        ELSE IF ~sd.ok THEN Failed(Err("ErrIncompatSystemd"))
        ELSE IF sh.err # Nil THEN Failed(sh.err)
        ELSE IF g.err # Nil THEN Failed(g.err)
        ELSE IF ~a.ok THEN Failed(Err("ErrSyntax"))
        ELSE IF ~IsValid(a.val) THEN Failed(Err("log.Fatal"))
        ELSE [err |-> Nil, shell |-> sh.path, val |-> a.val]

\* configs(): bash(), power.Get, strconv.Atoi; the value is not validated.
configs ==
    LET sh == bash(shellPath)
        g  == Get(thresholdFile)
        a  == Atoi(g.val)
    IN  IF sh.err # Nil THEN Failed(sh.err)
        ELSE IF g.err # Nil THEN Failed(g.err)
        ELSE IF ~a.ok THEN Failed(Err("ErrSyntax"))
        ELSE [err |-> Nil, shell |-> sh.path, val |-> a.val]

\* Systemd.Write up to the first fan-out: configs(), then the version
\* check that opens Systemd.write.
SystemdWritePrelude ==
    LET c  == configs
        sd == systemd(sysd)
    IN  IF c.err # Nil THEN c
        ELSE IF sd.err # Nil THEN Failed(sd.err)
        ELSE IF ~sd.ok THEN Failed(Err("ErrIncompatSystemd"))
        ELSE c

\* Systemd.Reset up to the first fan-out: configs().
SystemdResetPrelude == configs

\* Service.Delete has no precondition.
ServiceDeletePrelude == [err |-> Nil, shell |-> NoShell, val |-> 0]

Prelude(i, o) ==
    IF i = "services"
    THEN (IF o = "Write" THEN ServiceWritePrelude ELSE ServiceDeletePrelude)
    ELSE (IF o = "Write" THEN SystemdWritePrelude ELSE SystemdResetPrelude)

\* A Systemd.Write whose tasks write and enable in one fan-out.
PhasesOnePhase(i, o) ==
    IF o = "Write" THEN << <<"create", "render", "enable", "send">> >>
    ELSE IF i = "services" THEN << <<"remove", "disable", "send">> >>
    ELSE << <<"remove", "send">>, <<"disable", "send">> >>

\* Tasks of Service.Write that enable their unit before they render it.
PhasesEnableFirst(i, o) ==
    IF i = "services"
    THEN (IF o = "Write" THEN << <<"create", "enable", "render", "send">> >>
          ELSE << <<"remove", "disable", "send">> >>)
    ELSE (IF o = "Write" THEN << <<"create", "render", "send">>, <<"enable", "send">> >>
          ELSE << <<"remove", "send">>, <<"disable", "send">> >>)

\* The fan-outs of a command, each given as the steps of one of its tasks.
Phases(i, o) ==
    IF i = "services"
    THEN (IF o = "Write" THEN << <<"create", "render", "enable", "send">> >>
          ELSE << <<"remove", "disable", "send">> >>)
    ELSE (IF o = "Write" THEN << <<"create", "render", "send">>, <<"enable", "send">> >>
          ELSE << <<"remove", "send">>, <<"disable", "send">> >>)

Ops(i) ==
    IF i = "services" THEN {"Write", "Delete"}
    ELSE IF i \in {"systemd", "sync"} THEN {"Write", "Reset"}
    ELSE {}

-----------------------------------------------------------------------------
(* The persistence controller: a command fans out one task per unit, each  *)
(* task sends one result on a channel of capacity len(units), and the      *)
(* controller receives until the first error or until it has N results.    *)

MaxCalls == 2
MaxDenied == 1
MaxBroken == 1

\* make(chan error): a channel without a buffer.
ChanCapUnbuffered == N - N

\* make(chan error, len(units))
ChanCap == N

Idle == [e \in Events |-> <<>>]
NoResults == [e \in Events |-> Nil]
NoCfg == [shell |-> NoShell, val |-> 0]
NoPrev == [op |-> "none", ret |-> NoRet, complete |-> TRUE]

Running(e) == tpc[e] # <<>>
Step(e) == IF Running(e) THEN Head(tpc[e]) ELSE "-"

\* A task goes on to its next step, or reports err and stops.
Advance(e) == tpc' = [tpc EXCEPT ![e] = Tail(@)] /\ UNCHANGED tres
Fail(e, err) ==
    /\ tpc' = [tpc EXCEPT ![e] = <<"send">>]
    /\ tres' = [tres EXCEPT ![e] = err]

\* persist or reset is invoked: the preconditions are evaluated and, when
\* they hold, one task per unit is started. A run goes on to a further
\* command only after a command whose tasks all ran to their end.
Call(o) ==
    /\ ctl = "idle" /\ calls < MaxCalls
    /\ prev.complete
    /\ o \in Ops(impl)
    /\ LET p == Prelude(impl, o)
       IN  /\ op' = o
           /\ calls' = calls + 1
           /\ recvd' = <<>> /\ errs' = <<>> /\ tres' = NoResults
           /\ IF p.err # Nil
              THEN /\ ctl' = "returned" /\ ret' = p.err
                   /\ UNCHANGED <<tpc, later, cfg>>
              ELSE /\ ctl' = "collect" /\ ret' = NoRet
                   /\ cfg' = [shell |-> p.shell, val |-> p.val]
                   /\ tpc' = [e \in Events |-> Head(Phases(impl, o))]
                   /\ later' = Tail(Phases(impl, o))
    /\ UNCHANGED <<impl, prev, pureVars, hostVars, fsVars, mainVars>>

\* Tasks that all create one and the same file, that of the first unit.
CreateShared(e) ==
    /\ Step(e) = "create"
    /\ IF e \in denied
       THEN Fail(e, UnitErr("EACCES", e)) /\ UNCHANGED unitFile
       ELSE Advance(e) /\ unitFile' = [unitFile EXCEPT ![units[1].Event] = Empty]
    /\ UNCHANGED <<impl, op, ctl, ret, later, recvd, errs, cfg, calls, prev,
                   enabled, pureVars, hostVars, mainVars>>

\* A create that, when it fails, takes away the files of the other units.
CreateRollsBack(e) ==
    /\ Step(e) = "create"
    /\ IF e \in denied
       THEN Fail(e, UnitErr("EACCES", e)) /\ unitFile' = [x \in Events |-> Absent]
       ELSE Advance(e) /\ unitFile' = [unitFile EXCEPT ![e] = Empty]
    /\ UNCHANGED <<impl, op, ctl, ret, later, recvd, errs, cfg, calls, prev,
                   enabled, pureVars, hostVars, mainVars>>

\* os.Create(s.dir + event): creates the file or truncates it.
Create(e) ==
    /\ Step(e) = "create"
    /\ IF e \in denied
       THEN Fail(e, UnitErr("EACCES", e)) /\ UNCHANGED unitFile
       ELSE Advance(e) /\ unitFile' = [unitFile EXCEPT ![e] = Empty]
    /\ UNCHANGED <<impl, op, ctl, ret, later, recvd, errs, cfg, calls, prev,
                   enabled, pureVars, hostVars, mainVars>>

\* A render that writes the threshold the template was written with rather
\* than the one of the configuration.
RenderDefault(e) ==
    /\ Step(e) = "render"
    /\ Advance(e)
    /\ unitFile' = [unitFile EXCEPT ![e] = Rendered(cfg.shell, TargetOf(e), 100)]
    /\ UNCHANGED <<impl, op, ctl, ret, later, recvd, errs, cfg, calls, prev,
                   enabled, pureVars, hostVars, mainVars>>

\* t.Execute(f, u): the unit, with the shell and the threshold of this
\* command, is written into the file.
Render(e) ==
    /\ Step(e) = "render"
    /\ Advance(e)
    /\ unitFile' = [unitFile EXCEPT ![e] = Rendered(cfg.shell, TargetOf(e), cfg.val)]
    /\ UNCHANGED <<impl, op, ctl, ret, later, recvd, errs, cfg, calls, prev,
                   enabled, pureVars, hostVars, mainVars>>

\* An enable that undoes the enabling of a unit that is enabled already.
EnableToggles(e) ==
    /\ Step(e) = "enable"
    /\ IF e \in broken
       THEN Fail(e, UnitErr("ExitError", e)) /\ UNCHANGED enabled
       ELSE Advance(e) /\ enabled' = IF e \in enabled THEN enabled \ {e}
                                                       ELSE enabled \cup {e}
    /\ UNCHANGED <<impl, op, ctl, ret, later, recvd, errs, cfg, calls, prev,
                   unitFile, pureVars, hostVars, mainVars>>

\* exec.Command("systemctl", "enable", event).Run()
Enable(e) ==
    /\ Step(e) = "enable"
    /\ IF e \in broken
       THEN Fail(e, UnitErr("ExitError", e)) /\ UNCHANGED enabled
       ELSE Advance(e) /\ enabled' = enabled \cup {e}
    /\ UNCHANGED <<impl, op, ctl, ret, later, recvd, errs, cfg, calls, prev,
                   unitFile, pureVars, hostVars, mainVars>>

\* The outcome of os.Remove(s.dir + event): a missing file is found before
\* the permissions of the directory are looked at.
RemoveErr(e) ==
    IF unitFile[e].state = "absent" THEN UnitErr("ENOENT", e)
    ELSE IF e \in denied THEN UnitErr("EACCES", e)
    ELSE Nil

\* Whether a task reports the error of os.Remove.
\* Service.Delete, Systemd.remove of systemd.go:
\*     err != nil && !errors.Is(err, syscall.ENOENT)
\* Systemd.remove on top of sync:
\*     err != nil && errors.Is(err, syscall.ENOENT)
RemoveReports(i, err) ==
    IF i = "sync" THEN err # Nil /\ err.kind = "ENOENT"
    ELSE err # Nil /\ err.kind # "ENOENT"

RemoveLeavesFile(e) ==
    /\ Step(e) = "remove"
    /\ LET err == RemoveErr(e)
       IN  IF RemoveReports(impl, err) THEN Fail(e, err) ELSE Advance(e)
    /\ UNCHANGED <<impl, op, ctl, ret, later, recvd, errs, cfg, calls, prev,
                   unitFile, enabled, pureVars, hostVars, mainVars>>

\* os.Remove(s.dir + event), and whether the task goes on.
Remove(e) ==
    /\ Step(e) = "remove"
    /\ LET err == RemoveErr(e)
       IN  /\ IF RemoveReports(impl, err) THEN Fail(e, err) ELSE Advance(e)
           /\ unitFile' = IF err = Nil THEN [unitFile EXCEPT ![e] = Absent]
                          ELSE unitFile
    /\ UNCHANGED <<impl, op, ctl, ret, later, recvd, errs, cfg, calls, prev,
                   enabled, pureVars, hostVars, mainVars>>

\* The outcome of exec.Command("systemctl", "disable", event).Run().
DisableErr(e) ==
    IF e \in broken THEN UnitErr("ExitError", e)
    ELSE IF ~Known(e) THEN UnitErr("DoesNotExist", e)
    ELSE Nil

DisableReportsAll(err) == err # Nil

\* A failure whose diagnostic contains "<event> does not exist." counts as
\* success.
DisableReports(err) == err # Nil /\ err.kind # "DoesNotExist"

Disable(e) ==
    /\ Step(e) = "disable"
    /\ LET err == DisableErr(e)
       IN  /\ IF DisableReports(err) THEN Fail(e, err) ELSE Advance(e)
           /\ enabled' = IF err = Nil THEN enabled \ {e} ELSE enabled
    /\ UNCHANGED <<impl, op, ctl, ret, later, recvd, errs, cfg, calls, prev,
                   unitFile, pureVars, hostVars, mainVars>>

\* errs <- err, the last statement of every path of a task.
Send(e) ==
    /\ Step(e) = "send"
    /\ Len(errs) < ChanCap
    /\ errs' = Append(errs, tres[e])
    /\ tpc' = [tpc EXCEPT ![e] = <<>>]
    /\ UNCHANGED <<impl, op, ctl, ret, later, recvd, tres, cfg, calls, prev,
                   pureVars, hostVars, fsVars, mainVars>>

ReceiveCancels ==
    /\ ctl = "collect"
    /\ errs # <<>>
    /\ LET v   == Head(errs)
           got == Append(recvd, v)
       IN  IF v # Nil
           THEN /\ ctl' = "returned" /\ ret' = v
                /\ errs' = Tail(errs) /\ recvd' = got
                /\ tpc' = Idle
                /\ UNCHANGED later
           ELSE IF Len(got) < N
           THEN /\ errs' = Tail(errs) /\ recvd' = got
                /\ UNCHANGED <<ctl, ret, later, tpc>>
           ELSE IF later = <<>>
           THEN /\ ctl' = "returned" /\ ret' = Nil
                /\ errs' = Tail(errs) /\ recvd' = got
                /\ UNCHANGED <<later, tpc>>
           ELSE /\ later' = Tail(later)
                /\ tpc' = [e \in Events |-> Head(later)]
                /\ errs' = <<>> /\ recvd' = <<>>
                /\ UNCHANGED <<ctl, ret>>
    /\ UNCHANGED <<impl, op, tres, cfg, calls, prev, pureVars, hostVars, fsVars, mainVars>>

ReceiveSwallows ==
    /\ ctl = "collect"
    /\ errs # <<>>
    /\ LET v   == Head(errs)
           got == Append(recvd, v)
       IN  IF Len(got) < N
           THEN /\ errs' = Tail(errs) /\ recvd' = got
                /\ UNCHANGED <<ctl, ret, later, tpc>>
           ELSE IF later = <<>>
           THEN /\ ctl' = "returned" /\ ret' = v
                /\ errs' = Tail(errs) /\ recvd' = got
                /\ UNCHANGED <<later, tpc>>
           ELSE /\ later' = Tail(later)
                /\ tpc' = [e \in Events |-> Head(later)]
                /\ errs' = <<>> /\ recvd' = <<>>
                /\ UNCHANGED <<ctl, ret>>
    /\ UNCHANGED <<impl, op, tres, cfg, calls, prev, pureVars, hostVars, fsVars, mainVars>>

\* One iteration of `for range units { if err := <-errs; err != nil {...} }`;
\* after N nil results the controller returns nil or, in the two-phase
\* commands, starts the next fan-out on a new channel.
Receive ==
    /\ ctl = "collect"
    /\ errs # <<>>
    /\ LET v   == Head(errs)
           got == Append(recvd, v)
       IN  IF v # Nil
           THEN /\ ctl' = "returned" /\ ret' = v
                /\ errs' = Tail(errs) /\ recvd' = got
                /\ UNCHANGED <<later, tpc>>
           ELSE IF Len(got) < N
           THEN /\ errs' = Tail(errs) /\ recvd' = got
                /\ UNCHANGED <<ctl, ret, later, tpc>>
           ELSE IF later = <<>>
           THEN /\ ctl' = "returned" /\ ret' = Nil
                /\ errs' = Tail(errs) /\ recvd' = got
                /\ UNCHANGED <<later, tpc>>
           ELSE /\ later' = Tail(later)
                /\ tpc' = [e \in Events |-> Head(later)]
                /\ errs' = <<>> /\ recvd' = <<>>
                /\ UNCHANGED <<ctl, ret>>
    /\ UNCHANGED <<impl, op, tres, cfg, calls, prev, pureVars, hostVars, fsVars, mainVars>>

\* The command line reports the result and the process ends; tasks that
\* have not finished end with it.
Exit ==
    /\ ctl = "returned"
    /\ prev' = [op |-> op, ret |-> ret, complete |-> \A e \in Events : ~Running(e)]
    /\ op' = "none" /\ ctl' = "idle" /\ ret' = NoRet
    /\ recvd' = <<>> /\ errs' = <<>> /\ later' = <<>>
    /\ tpc' = Idle /\ tres' = NoResults /\ cfg' = NoCfg
    /\ UNCHANGED <<impl, calls, pureVars, hostVars, fsVars, mainVars>>

-----------------------------------------------------------------------------
(* main_linux.go: the command line that does the work itself, one unit     *)
(* after the other.                                                        *)

\* main_linux.go, events: the units are named after their targets.
events == <<"hibernate", "hybrid-sleep", "multi-user", "suspend", "suspend-then-hibernate">>

MainEvents == { events[i] : i \in 1..Len(events) }

HasPrefix(s, p) == Len(s) >= Len(p) /\ SubSeq(s, 1, Len(p)) = p

\* s without its leading spaces and tabs; a newline is not skipped.
RECURSIVE SkipBlanks(_)
SkipBlanks(s) ==
    IF s # <<>> /\ Head(s) \in {" ", "\t"} THEN SkipBlanks(Tail(s)) ELSE s

\* fmt.Sscanf(output, "systemd %d", &revision): the literal word, any
\* spaces, then one integer; whatever follows it is left unread.
SscanfSystemd(out) ==
    LET word == <<"s", "y", "s", "t", "e", "m", "d">>
    IN  IF ~HasPrefix(out, word) THEN [ok |-> FALSE, val |-> 0]
        ELSE LET t == SkipBlanks(SubSeq(out, Len(word) + 1, Len(out)))
             IN  IF t = <<>> \/ Head(t) = "\n" THEN [ok |-> FALSE, val |-> 0]
                 ELSE [ok |-> ScanInt(t).ok, val |-> ScanInt(t).val]

\* How a command ends: a message on the standard output and status 0, a
\* message on the standard error and os.Exit(1), or a panic, which the
\* deferred function of main recovers: it prints the request to file an
\* issue and main returns.
Done(cmd, msg) ==
    [cmd |-> cmd, code |-> 0, out |-> msg, err |-> "-", panic |-> "-", val |-> <<>>]
Refused(cmd, msg) ==
    [cmd |-> cmd, code |-> 1, out |-> "-", err |-> msg, panic |-> "-", val |-> <<>>]
Panicked(cmd, cause) ==
    [cmd |-> cmd, code |-> 0, out |-> "-", err |-> "FatalError", panic |-> cause,
     val |-> <<>>]

NoProc ==
    [cmd |-> "none", code |-> 0, out |-> "-", err |-> "-", panic |-> "-", val |-> <<>>]

\* Every event, whatever the service manager lists.
AvailableAll(ts) == events

\* The events among the targets of the host, in the order of the listing.
\* The listing is held without the ".target" suffix of its unit names.
RECURSIVE Available(_)
Available(ts) ==
    IF ts = <<>> THEN <<>>
    ELSE IF Head(ts) \in MainEvents THEN <<Head(ts)>> \o Available(Tail(ts))
    ELSE Available(Tail(ts))

\* The loop of persist over the available events: os.Create, tmpl.Execute,
\* systemctl enable, f.Close.
RECURSIVE PersistLoop(_, _, _, _, _)
PersistLoop(avail, shell, current, uf, en) ==
    IF avail = <<>>
    THEN [proc |-> Done("persist", "PersistenceEnabled"), uf |-> uf, en |-> en]
    ELSE LET e   == Head(avail)
             uf1 == [uf EXCEPT ![e] = Rendered(shell, e, current)]
         IN  IF e \in denied
             THEN [proc |-> Refused("persist", "PermissionDenied"), uf |-> uf, en |-> en]
             ELSE IF e \in broken
             THEN [proc |-> Panicked("persist", "systemctl enable"), uf |-> uf1, en |-> en]
             ELSE PersistLoop(Tail(avail), shell, current, uf1, en \cup {e})

\* A persist that embeds the threshold the program was built with instead
\* of reading the device.
persistStale ==
    LET stay(p) == [proc |-> p, uf |-> unitFile, en |-> enabled]
        rev     == SscanfSystemd(sysd)
    IN  IF thresholdFile = NoFile
        THEN stay(Refused("persist", "ThresholdNotFound"))
        ELSE IF sysd = NoOutput THEN stay(Panicked("persist", "systemctl --version"))
        ELSE IF ~rev.ok THEN stay(Panicked("persist", "fmt.Sscanf"))
        ELSE IF rev.val < MinSystemd THEN stay(Refused("persist", "IncompatSystemd"))
        ELSE IF shellPath = NoShell THEN stay(Refused("persist", "ShellNotFound"))
        ELSE PersistLoop(Available(targets), shellPath, 100, unitFile, enabled)

\* case "persist", from bat.has(threshold) to the last message.
persist ==
    LET stay(p) == [proc |-> p, uf |-> unitFile, en |-> enabled]
        rev     == SscanfSystemd(sysd)
        current == Atoi(TrimSpace(thresholdFile))
    IN  IF thresholdFile = NoFile
        THEN stay(Refused("persist", "ThresholdNotFound"))
        ELSE IF sysd = NoOutput THEN stay(Panicked("persist", "systemctl --version"))
        ELSE IF ~rev.ok THEN stay(Panicked("persist", "fmt.Sscanf"))
        ELSE IF rev.val < MinSystemd THEN stay(Refused("persist", "IncompatSystemd"))
        ELSE IF shellPath = NoShell THEN stay(Refused("persist", "ShellNotFound"))
        ELSE IF ~current.ok THEN stay(Panicked("persist", "strconv.Atoi"))
        ELSE PersistLoop(Available(targets), shellPath, current.val, unitFile, enabled)

\* What `systemctl disable` does for the reset of main_linux.go. A process
\* that may not touch the file of a unit is not authorised to disable it.
MainDisable(e, uf, en) ==
    IF e \in broken THEN "failed"
    ELSE IF ~KnownIn(e, uf, en) THEN "service does not exist"
    ELSE IF e \in denied THEN "authentication required"
    ELSE "ok"

\* The loop of reset over all events: systemctl disable, then os.Remove;
\* a unit systemd does not know is skipped, its file is not looked at.
RECURSIVE ResetLoop(_, _, _)
ResetLoop(evs, uf, en) ==
    IF evs = <<>>
    THEN [proc |-> Done("reset", "PersistenceReset"), uf |-> uf, en |-> en]
    ELSE LET e   == Head(evs)
             d   == MainDisable(e, uf, en)
             en1 == en \ {e}
         IN  IF d = "authentication required"
             THEN [proc |-> Refused("reset", "PermissionDenied"), uf |-> uf, en |-> en]
             ELSE IF d = "service does not exist"
             THEN ResetLoop(Tail(evs), uf, en)
             ELSE IF d = "failed"
             THEN [proc |-> Panicked("reset", "systemctl disable"), uf |-> uf, en |-> en]
             ELSE IF uf[e].state = "absent"
             THEN ResetLoop(Tail(evs), uf, en1)
             ELSE IF e \in denied
             THEN [proc |-> Refused("reset", "PermissionDenied"), uf |-> uf, en |-> en1]
             ELSE ResetLoop(Tail(evs), [uf EXCEPT ![e] = Absent], en1)

\* case "reset"
reset == ResetLoop(events, unitFile, enabled)

\* One run of the program; the run before it is remembered.
MainRun(r) ==
    /\ impl = "main" /\ calls < MaxCalls
    /\ calls' = calls + 1
    /\ prev' = [op |-> proc.cmd, ret |-> proc, complete |-> TRUE]
    /\ proc' = r.proc
    /\ unitFile' = r.uf
    /\ enabled' = r.en
    /\ UNCHANGED <<impl, op, ctl, ret, later, recvd, errs, tpc, tres, cfg,
                   pureVars, hostVars, devVars>>

MainPersist == MainRun(persist)

MainReset == MainRun(reset)

-----------------------------------------------------------------------------
(* The battery devices: /sys/class/power_supply/BAT?/ and its accessors.   *)

\* The directories the pattern BAT? can match, in the order of filepath.Glob.
BatNames == <<"BAT0", "BAT1">>

Threshold == "charge_control_end_threshold"

\* The pseudo-files the program looks at.
Variables ==
    { "capacity", "status", Threshold, "charge_full", "charge_full_design",
      "energy_full", "energy_full_design" }

\* filepath.Glob("/sys/class/power_supply/BAT?"): the battery directories
\* of tree t, sorted.
Glob(t) == SelectSeq(BatNames, LAMBDA b : b \in DOMAIN t)

\* filepath.Glob(filepath.Join(dir, v.String())): the directories that hold
\* a file named v, sorted.
GlobFile(t, v) == SelectSeq(BatNames, LAMBDA b : b \in DOMAIN t /\ t[b][v] # NoFile)

\* power.find / variable.find: the first match, ErrNotFound without one.
find(t, v) ==
    LET matches == GlobFile(t, v)
    IN  IF matches = <<>> THEN [err |-> Err("ErrNotFound"), bat |-> "-"]
        ELSE [err |-> Nil, bat |-> matches[1]]

\* power.Get / variable.Get on the tree.
GetOf(t, v) ==
    LET p == find(t, v)
    IN  Get(IF p.err # Nil THEN NoFile ELSE t[p.bat][v])

\* A Set that opens the file without truncating it and writes at its end.
SetOfAppending(t, v, val, priv) ==
    LET p == find(t, v)
    IN  IF p.err # Nil THEN [err |-> p.err, tree |-> t]
        ELSE IF ~priv THEN [err |-> Err("EACCES"), tree |-> t]
        ELSE [err |-> Nil, tree |-> [t EXCEPT ![p.bat][v] = @ \o val]]

\* power.Set / variable.Set: find, os.Create, f.WriteString(val).
SetOf(t, v, val, priv) ==
    LET p == find(t, v)
    IN  IF p.err # Nil THEN [err |-> p.err, tree |-> t]
        ELSE IF ~priv THEN [err |-> Err("EACCES"), tree |-> t]
        ELSE [err |-> Nil, tree |-> [t EXCEPT ![p.bat][v] = val]]

\* battery.has of main_linux.go: os.Stat
has(t, root, v) == t[root][v] # NoFile

\* battery.read: os.ReadFile, then bytes.TrimSpace.
read(t, root, v) ==
    IF t[root][v] = NoFile THEN [err |-> Err("ENOENT"), val |-> <<>>]
    ELSE [err |-> Nil, val |-> TrimSpace(t[root][v])]

\* battery.write: os.WriteFile
write(t, root, v, contents, priv) ==
    IF ~priv THEN [err |-> Err("EACCES"), tree |-> t]
    ELSE [err |-> Nil, tree |-> [t EXCEPT ![root][v] = contents]]

\* The threshold file of the first battery directory, the one main_linux.go
\* works on.
FirstThreshold(t) ==
    IF Glob(t) = <<>> THEN NoFile ELSE t[Glob(t)[1]][Threshold]

-----------------------------------------------------------------------------
(* main_linux.go: the other commands, and main as a whole.                 *)

\* A value printed on the standard output.
Printed(cmd, v) ==
    [cmd |-> cmd, code |-> 0, out |-> "value", err |-> "-", panic |-> "-", val |-> v]

\* flag.Usage(); os.Exit(2)
UsageError(cmd, msg) ==
    [cmd |-> cmd, code |-> 2, out |-> "Usage", err |-> msg, panic |-> "-", val |-> <<>>]

\* case "capacity", "status"
mainShow(t, root, v) ==
    LET r == read(t, root, v)
    IN  IF r.err # Nil THEN Panicked(v, "os.ReadFile") ELSE Printed(v, r.val)

\* case "health": charge_full and charge_full_design, or the energy pair
\* when charge_full does not exist; a missing charge_full_design is passed
\* over and w stays empty.
mainHealth(t, root) ==
    LET cf  == read(t, root, "charge_full")
        cfd == read(t, root, "charge_full_design")
        ef  == read(t, root, "energy_full")
        efd == read(t, root, "energy_full_design")
        energy == cf.err # Nil
        v == IF energy THEN ef.val ELSE cf.val
        w == IF energy THEN efd.val ELSE cfd.val
        x == Atoi(v)
        y == Atoi(w)
    IN  IF energy /\ (ef.err # Nil \/ efd.err # Nil)
        THEN Panicked("health", "os.ReadFile")
        ELSE IF ~x.ok \/ ~y.ok THEN Panicked("health", "strconv.Atoi")
        ELSE IF y.val = 0 THEN Panicked("health", "integer divide by zero")
        ELSE Printed("health", Itoa((x.val * 100) \div y.val))

\* case "threshold": bat.has, then by the number of arguments the value is
\* printed, or the kernel gate, strconv.Atoi, the range check and bat.write.
mainThreshold(t, root, vals, priv) ==
    LET stay(p) == [proc |-> p, tree |-> t]
        gate    == mainKernelGate(kver)
        setting == vals[1]
        i       == Atoi(setting)
        w       == write(t, root, Threshold, setting, priv)
    IN  IF ~has(t, root, Threshold)
        THEN stay(Refused("threshold", "ThresholdNotFound"))
        ELSE IF Len(vals) = 0
        THEN stay(Printed("threshold", read(t, root, Threshold).val))
        ELSE IF Len(vals) > 1 THEN stay(Refused("threshold", "InvalidArguments"))
        ELSE IF gate.err THEN stay(Panicked("threshold", "fmt.Sscanf"))
        ELSE IF ~gate.ok THEN stay(Refused("threshold", "IncompatKernel"))
        ELSE IF i.range THEN stay(Panicked("threshold", "strconv.Atoi"))
        ELSE IF ~i.ok THEN stay(Refused("threshold", "ArgNotInt"))
        ELSE IF i.val < 1 \/ i.val > 100
        THEN stay(Refused("threshold", "OutOfRange"))
        ELSE IF w.err # Nil THEN stay(Refused("threshold", "PermissionDenied"))
        ELSE [proc |-> Done("threshold", "ThresholdSet"), tree |-> w.tree]

\* The flags main defines.
KnownFlags == {"-d", "--debug", "-h", "--help", "-v", "--version"}

\* main: flag.Parse, help and version, the battery discovery, and the
\* subcommand. a.flags are the flags given, a.cmd is flag.Arg(0) ("" when
\* there is none) and a.vals are the arguments after it.
main(a) ==
    LET stay(p) == [proc |-> p, tree |-> supply, uf |-> unitFile, en |-> enabled]
        root    == Glob(supply)[1]
        th      == mainThreshold(supply, root, a.vals, sudo)
    IN  IF a.flags \ KnownFlags # {}
        THEN stay(UsageError("flag", "flag provided but not defined"))
        ELSE IF a.flags \cap {"-h", "--help"} # {} THEN stay(Done("help", "Usage"))
        ELSE IF a.flags \cap {"-v", "--version"} # {} THEN stay(Done("version", "Version"))
        ELSE IF a.cmd = "" THEN stay(UsageError("none", "-"))
        ELSE IF Glob(supply) = <<>> THEN stay(Refused(a.cmd, "Incompatible"))
        ELSE IF a.cmd \in {"capacity", "status"}
        THEN stay(mainShow(supply, root, a.cmd))
        ELSE IF a.cmd = "health" THEN stay(mainHealth(supply, root))
        ELSE IF a.cmd = "persist"
        THEN [proc |-> persist.proc, tree |-> supply, uf |-> persist.uf, en |-> persist.en]
        ELSE IF a.cmd = "threshold"
        THEN [proc |-> th.proc, tree |-> th.tree, uf |-> unitFile, en |-> enabled]
        ELSE IF a.cmd = "reset"
        THEN [proc |-> reset.proc, tree |-> supply, uf |-> reset.uf, en |-> reset.en]
        ELSE stay(Refused(a.cmd, "NoSuchCommand"))

MaxRuns == 1

\* One run of main_linux.go with the arguments a, on the battery devices of
\* the host. thresholdFile is the threshold file of the first battery.
MainStep(a) ==
    /\ impl = "main"
    /\ calls' = calls + 1
    /\ prev' = [op |-> proc.cmd, ret |-> proc, complete |-> TRUE]
    /\ argv' = a
    /\ LET r == main(a)
       IN  /\ proc' = r.proc
           /\ supply' = r.tree
           /\ thresholdFile' = FirstThreshold(r.tree)
           /\ unitFile' = r.uf
           /\ enabled' = r.en
    /\ UNCHANGED <<impl, op, ctl, ret, later, recvd, errs, tpc, tres, cfg,
                   pureVars, sysd, shellPath, denied, broken, targets, sudo, quit>>

MainCommand(a) == calls < MaxRuns /\ MainStep(a)

-----------------------------------------------------------------------------
(* Package cli: the command line on top of power.Get, power.Set and a      *)
(* persistence controller.                                                 *)

\* log.Fatal, log.Fatalln: the error on the standard error, os.Exit(1).
Fatal(cmd) ==
    [cmd |-> cmd, code |-> 1, out |-> "-", err |-> "log.Fatal", panic |-> "-",
     val |-> <<>>]

\* app.show
show(t, v) ==
    LET g == GetOf(t, v)
    IN  IF g.err # Nil /\ g.err.kind = "ErrNotFound" THEN Refused(v, "Incompatible")
        ELSE IF g.err # Nil THEN Fatal(v)
        ELSE Printed(v, g.val)

\* app.threshold of part_010: vals are the arguments after "threshold".
threshold(t, vals, priv) ==
    LET stay(p) == [proc |-> p, tree |-> t]
        val     == vals[1]
        i       == Atoi(val)
        gate    == requiredKernel(kver)
        w       == SetOf(t, Threshold, TrimSpace(val), priv)
    IN  IF Len(vals) > 1 THEN stay(Refused("threshold", "ExpectedSingleArg"))
        ELSE IF Len(vals) = 0 THEN stay(show(t, Threshold))
        ELSE IF i.range THEN stay(Fatal("threshold"))
        ELSE IF ~i.ok THEN stay(Refused("threshold", "ArgNotInt"))
        ELSE IF ~valid(i.val) THEN stay(Refused("threshold", "OutOfRange"))
        ELSE IF gate.err THEN stay(Fatal("threshold"))
        ELSE IF ~gate.ok THEN stay(Refused("threshold", "IncompatKernel"))
        ELSE IF w.err # Nil /\ w.err.kind = "ErrNotFound"
        THEN stay(Refused("threshold", "Incompatible"))
        ELSE IF w.err # Nil /\ w.err.kind = "EACCES"
        THEN stay(Refused("threshold", "PermissionDenied"))
        ELSE IF w.err # Nil THEN stay(Fatal("threshold"))
        ELSE [proc |-> Done("threshold", "ThresholdSet"), tree |-> w.tree]

\* The message app.persist has for an error of the controller, "-" if none.
PersistMessage(e) ==
    IF e.kind = "ErrBashNotFound" THEN "BashNotFound"
    ELSE IF e.kind = "ErrIncompatSystemd" THEN "IncompatSystemd"
    ELSE IF e.kind = "ErrNotFound" THEN "Incompatible"
    ELSE IF e.kind = "EACCES" THEN "PermissionDenied"
    ELSE "-"

\* app.persist, given what Write returned. In part_010 every case returns
\* after errorln; in part_008 the cases do not, and when quit comes back the
\* success message is written too.
appPersist(i, e, q) ==
    IF e = Nil THEN Done("persist", "PersistenceEnabled")
    ELSE IF PersistMessage(e) = "-" THEN Fatal("persist")
    ELSE IF i = "cli008" /\ q = "spy"
    THEN [Refused("persist", PersistMessage(e)) EXCEPT !.out = "PersistenceEnabled"]
    ELSE Refused("persist", PersistMessage(e))

\* app.reset, given what Reset or Delete returned.
appReset(e) ==
    IF e = Nil THEN Done("reset", "PersistenceReset")
    ELSE IF e.kind = "EACCES" THEN Refused("reset", "PermissionDenied")
    ELSE Fatal("reset")

\* Run of part_010 for the commands that touch the battery: a.flags holds
\* os.Args[1] when it is an option.
Run(a) ==
    LET stay(p) == [proc |-> p, tree |-> supply]
    IN  IF a.flags = {} /\ a.cmd = "" THEN stay(Done("help", "Usage"))
        ELSE IF a.flags \cap {"-h", "--help"} # {} THEN stay(Done("help", "Usage"))
        ELSE IF a.flags \cap {"-v", "--version"} # {} THEN stay(Done("version", "Version"))
        ELSE IF a.flags # {} THEN stay(Refused("option", "NoOption"))
        ELSE IF a.cmd \in {"capacity", "status"} THEN stay(show(supply, a.cmd))
        ELSE IF a.cmd = "threshold" THEN threshold(supply, a.vals, sudo)
        ELSE stay(Refused(a.cmd, "NoOption"))

\* What a run of a command line of package cli leaves behind; r is what the
\* controller returned to it, if it was called.
AppEnds(a, p, t, r) ==
    /\ calls' = calls + 1
    /\ ret' = r
    /\ prev' = [op |-> proc.cmd, ret |-> proc, complete |-> TRUE]
    /\ argv' = a
    /\ proc' = p
    /\ supply' = t
    /\ thresholdFile' = FirstThreshold(t)
    /\ UNCHANGED <<impl, op, ctl, later, recvd, errs, tpc, tres, cfg,
                   pureVars, sysd, shellPath, denied, broken, targets, sudo, quit,
                   fsVars>>

\* One run of the command line of part_010, persist and reset apart.
AppRun(a) ==
    /\ impl = "cli" /\ quit = "os.Exit" /\ calls < MaxRuns
    /\ a.cmd \notin {"persist", "reset"}
    /\ AppEnds(a, Run(a).proc, Run(a).tree, ret)

NoFlags(cmd) == [flags |-> {}, cmd |-> cmd, vals |-> <<>>]

\* app.persist with a controller whose Write returns e.
AppPersist(e) ==
    /\ impl \in {"cli", "cli008"} /\ calls < MaxRuns
    /\ AppEnds(NoFlags("persist"), appPersist(impl, e, quit), supply, e)

\* app.reset with a controller whose Reset or Delete returns e.
AppReset(e) ==
    /\ impl \in {"cli", "cli008"} /\ calls < MaxRuns
    /\ AppEnds(NoFlags("reset"), appReset(e), supply, e)

\* A call of power.Set(v, val); the result keeps the variable and the value.
PowerSet(v, val) ==
    /\ impl = "power" /\ calls = 0
    /\ LET w == SetOf(supply, v, val, sudo)
       IN  AppEnds([flags |-> {}, cmd |-> "Set", vals |-> <<val>>],
                   [cmd |-> "Set", code |-> 0, out |-> v,
                    err |-> IF w.err = Nil THEN "-" ELSE w.err.kind,
                    panic |-> "-", val |-> val],
                   w.tree, ret)

\* A call of power.Get(v), as the first call or after up to MaxRuns others;
\* the result keeps the variable and what came back.
PowerGet(v) ==
    /\ impl = "power" /\ calls <= MaxRuns
    /\ LET g == GetOf(supply, v)
       IN  AppEnds([flags |-> {}, cmd |-> "Get", vals |-> <<>>],
                   [cmd |-> "Get", code |-> 0, out |-> v,
                    err |-> IF g.err = Nil THEN "-" ELSE g.err.kind,
                    panic |-> "-", val |-> g.val],
                   supply, ret)

-----------------------------------------------------------------------------
(* The hosts the commands run on, and the specifications.                  *)

VersionSpread == 1

SystemdVersions == (MinSystemd - VersionSpread)..(MinSystemd + VersionSpread)

VersionStyles == {"plain", "distro"}

\* The first line of `systemctl --version` for version n.
VersionOutput(n, style) ==
    <<"s", "y", "s", "t", "e", "m", "d", " ">> \o Itoa(n) \o
    (IF style = "plain" THEN <<"\n">>
     ELSE <<" ", "(">> \o Itoa(n) \o <<".", "9", "-", "1", ")", "\n">>)

\* systemctl fails, or prints no version.
MalformedVersions == { NoOutput, <<"s", "y", "s", "t", "e", "m", "d", "\n">> }

VersionOutputs ==
    { VersionOutput(n, st) : n \in SystemdVersions, st \in VersionStyles }
    \cup MalformedVersions

V244 == VersionOutput(MinSystemd, "plain")
Bash == <<"/", "b", "i", "n", "/", "b", "a", "s", "h">>
Sh == <<"/", "b", "i", "n", "/", "s", "h">>
T80 == <<"8", "0", "\n">>
T0 == <<"0", "\n">>
TBad == <<"o", "n", "\n">>

ThresholdFiles == { NoFile, T80, T0, TBad }

\* Every unit is handled by the same code, so the faults are placed on the
\* first units of the list (permissions) and on the last ones (systemctl).
DeniedCandidates == { units[i].Event : i \in 1..MaxDenied }
BrokenCandidates == { units[N + 1 - i].Event : i \in 1..MaxBroken }
MainDeniedCandidates == { events[i] : i \in 1..MaxDenied }
MainBrokenCandidates == { events[Len(events) + 1 - i] : i \in 1..MaxBroken }

\* The units as an earlier persist of threshold 80 left them.
Installed == [e \in Events |-> Rendered(Bash, TargetOf(e), 80)]
MainInstalled == [e \in MainEvents |-> Rendered(Sh, e, 80)]

\* Listings of target units: every event and another target, some of the
\* events, none of them.
TargetListings ==
    { <<"graphical", "hibernate", "hybrid-sleep", "multi-user", "suspend",
        "suspend-then-hibernate">>,
      <<"graphical", "multi-user", "suspend">>,
      <<"graphical">> }

PureIdle ==
    /\ kver = <<>> /\ tval = 0
    /\ kres = [cli |-> NoResult, main |-> NoResult]
    /\ tok = [done |-> FALSE, IsValid |-> FALSE, valid |-> FALSE]

DeviceIdle ==
    /\ supply = <<>> /\ sudo = TRUE /\ argv = <<>> /\ quit = "os.Exit"

CallIdle ==
    /\ op = "none" /\ ctl = "idle" /\ ret = NoRet
    /\ recvd = <<>> /\ errs = <<>> /\ later = <<>>
    /\ tpc = Idle /\ tres = NoResults /\ cfg = NoCfg
    /\ calls = 0 /\ prev = NoPrev

\* A host that meets every precondition of persist, with services.go and
\* some units out of reach.
InitService ==
    /\ PureIdle /\ CallIdle /\ DeviceIdle
    /\ impl = "services"
    /\ targets = <<>> /\ proc = NoProc
    /\ sysd = V244 /\ shellPath = Bash /\ thresholdFile = T80
    /\ denied \in SUBSET DeniedCandidates
    /\ broken \in SUBSET BrokenCandidates
    /\ \/ unitFile = [e \in Events |-> Absent] /\ enabled = {}
       \/ unitFile = Installed /\ enabled = Events

\* Any host, with main_linux.go.
InitMain ==
    /\ PureIdle /\ CallIdle /\ DeviceIdle
    /\ impl = "main"
    /\ proc = NoProc
    /\ sysd \in VersionOutputs
    /\ shellPath \in {NoShell, Sh}
    /\ thresholdFile \in ThresholdFiles
    /\ targets \in TargetListings
    /\ denied \in SUBSET MainDeniedCandidates
    /\ broken \in SUBSET MainBrokenCandidates
    /\ \/ unitFile = [e \in MainEvents |-> Absent] /\ enabled = {}
       \/ unitFile = MainInstalled /\ enabled = MainEvents

\* Any host on which every unit is within reach, with services.go or
\* systemd.go.
InitPre ==
    /\ PureIdle /\ CallIdle /\ DeviceIdle
    /\ impl \in {"services", "systemd"}
    /\ targets = <<>> /\ proc = NoProc
    /\ sysd \in VersionOutputs
    /\ shellPath \in {NoShell, Bash}
    /\ thresholdFile \in ThresholdFiles
    /\ denied = {} /\ broken = {}
    /\ \/ unitFile = [e \in Events |-> Absent] /\ enabled = {}
       \/ unitFile = Installed /\ enabled = Events

Tasks ==
    \/ \E e \in Events : Create(e)
    \/ \E e \in Events : Render(e)
    \/ \E e \in Events : Enable(e)
    \/ \E e \in Events : Remove(e)
    \/ \E e \in Events : Disable(e)
    \/ \E e \in Events : Send(e)

InitCommands == InitService \/ InitMain

NextCommands ==
    \/ \E o \in {"Write", "Delete"} : Call(o)
    \/ Tasks
    \/ Receive
    \/ Exit
    \/ MainPersist
    \/ MainReset

\* Up to MaxCalls commands in a row: services.go on hosts that meet the
\* preconditions of persist, main_linux.go on any host.
SpecCommands == InitCommands /\ [][NextCommands]_vars

InitHosts == InitPre \/ InitMain

NextHosts ==
    \/ \E o \in {"Write", "Delete", "Reset"} : calls = 0 /\ Call(o)
    \/ Tasks
    \/ Receive
    \/ Exit
    \/ MainPersist
    \/ MainReset

\* One command of a controller, or up to MaxCalls runs of main_linux.go, on
\* hosts that may fail any precondition of persist.
SpecHosts == InitHosts /\ [][NextHosts]_vars

-----------------------------------------------------------------------------
(* Package threshold: threshold.Set, called by the command line of         *)
(* part_008 with a value it has validated.                                 *)

\* regexp `\d+\.\d+`, FindString: the leftmost match, as its two runs of
\* digits; no match is the empty string.
RECURSIVE FindVersion(_)
FindVersion(s) ==
    IF s = <<>> THEN [found |-> FALSE, maj |-> <<>>, min |-> <<>>]
    ELSE LET d    == DigitPrefix(s)
             rest == SubSeq(s, Len(d) + 2, Len(s))
         IN  IF d # <<>> /\ Len(s) > Len(d) /\ s[Len(d) + 1] = "."
                /\ DigitPrefix(rest) # <<>>
             THEN [found |-> TRUE, maj |-> d, min |-> DigitPrefix(rest)]
             ELSE FindVersion(Tail(s))

\* threshold.isRequiredKernel: strconv.ParseFloat of the match, its integer
\* part and its fraction scaled back by the number of decimals. The
\* fraction is taken as exact here.
isRequiredKernel(ver) ==
    LET m   == FindVersion(ver)
        maj == DigitsVal(m.maj)
        min == DigitsVal(m.min)
    IN  IF ~m.found THEN [err |-> TRUE, ok |-> FALSE]
        ELSE [err |-> FALSE, ok |-> (maj > 5 \/ (maj = 5 /\ min >= 4))]

\* threshold.Set(t): kernel(), isRequiredKernel, filepath.Glob, os.Create,
\* f.WriteString(strconv.FormatInt(int64(t), 10)).
Set(file, t, priv) ==
    LET gate == isRequiredKernel(kver)
    IN  IF gate.err THEN [err |-> Err("ParseFloat"), file |-> file]
        ELSE IF ~gate.ok THEN [err |-> Err("ErrIncompatKernel"), file |-> file]
        ELSE IF file = NoFile THEN [err |-> Err("ErrNotFound"), file |-> file]
        ELSE IF ~priv THEN [err |-> Err("EACCES"), file |-> file]
        ELSE [err |-> Nil, file |-> Itoa(t)]

\* `bat threshold t` of part_008 between two commands of the controller,
\* once in a run; tval keeps the value given.
ThresholdSet(t) ==
    /\ impl = "services" /\ ctl = "idle" /\ tval = 0
    /\ tval' = t
    /\ LET w == Set(thresholdFile, t, sudo)
       IN  /\ thresholdFile' = w.file
           /\ proc' = IF w.err = Nil THEN Done("threshold", "ThresholdSet")
                      ELSE Refused("threshold", w.err.kind)
    /\ argv' = [flags |-> {}, cmd |-> "threshold", vals |-> <<Itoa(t)>>]
    /\ UNCHANGED <<kver, kres, tok, impl, op, ctl, ret, later, recvd, errs, tpc,
                   tres, cfg, calls, prev, sysd, shellPath, denied, broken,
                   targets, fsVars, supply, sudo, quit>>

-----------------------------------------------------------------------------
(* The hosts of the battery commands: the devices under                     *)
(* /sys/class/power_supply, the release of the kernel, the privileges.      *)

Line(s) == s \o <<"\n">>

\* The files of one battery directory.
Battery(th, cf, cfd, ef, efd) ==
    [v \in Variables |->
        CASE v = "capacity"            -> Line(<<"7", "9">>)
          [] v = "status"              -> Line(<<"F", "u", "l", "l">>)
          [] v = Threshold             -> th
          [] v = "charge_full"         -> cf
          [] v = "charge_full_design"  -> cfd
          [] v = "energy_full"         -> ef
          [] v = "energy_full_design"  -> efd]

\* A battery that reports charge, one that reports energy, one that reports
\* both but has no charge_full_design, and one with neither and no threshold.
ChargeBattery ==
    Battery(Line(<<"8", "0">>), Line(<<"4", "5">>), Line(<<"5", "0">>), NoFile, NoFile)
EnergyBattery ==
    Battery(Line(<<"6", "0">>), NoFile, NoFile, Line(<<"4", "0">>), Line(<<"5", "0">>))
NoDesignBattery ==
    Battery(Line(<<"7", "0">>), Line(<<"4", "5">>), NoFile,
            Line(<<"4", "0">>), Line(<<"5", "0">>))
BareBattery == Battery(NoFile, NoFile, NoFile, NoFile, NoFile)

NoBatteries == <<>>
One(b, p) == [x \in {b} |-> p]
Two(p, q) == [x \in {"BAT0", "BAT1"} |-> IF x = "BAT0" THEN p ELSE q]

Trees ==
    { NoBatteries,
      One("BAT0", ChargeBattery), One("BAT0", EnergyBattery),
      One("BAT0", NoDesignBattery), One("BAT0", BareBattery),
      One("BAT1", ChargeBattery),
      Two(BareBattery, ChargeBattery), Two(ChargeBattery, EnergyBattery) }

\* Releases on either side of the kernel gate, and one that does not scan.
DeviceReleases ==
    { <<"5", ".", "4", ".", "0">>, <<"5", ".", "3", ".", "1", "8">>,
      <<"v", "5", ".", "4">> }

\* An integer strconv.Atoi cannot hold in 64 bits.
TooLong == [i \in 1..20 |-> "9"]

\* Arguments of `bat threshold`.
Settings ==
    { <<"8", "0">>, <<"1">>, <<"1", "0", "0">>, <<"0">>, <<"1", "0", "1">>,
      <<"-", "1">>, <<"+", "5">>, <<"a", "b", "c">>, <<"8", "0", ".", "0">>,
      <<>>, TooLong }

Commands ==
    { "capacity", "status", "health", "threshold", "persist", "reset", "bogus" }

\* The command lines of a run.
Argvs ==
    { [flags |-> {}, cmd |-> c, vals |-> <<>>] : c \in Commands \cup {""} }
    \cup { [flags |-> {}, cmd |-> "threshold", vals |-> <<v>>] : v \in Settings }
    \cup { [flags |-> {}, cmd |-> "threshold", vals |-> <<<<"8", "0">>, <<"9", "0">>>>] }
    \cup { [flags |-> {f}, cmd |-> c, vals |-> <<>>] :
             f \in {"-h", "-v", "-d", "-x"}, c \in {"", "capacity"} }

\* What a persistence controller can return to package cli.
ControllerResults ==
    { Nil, Err("ErrBashNotFound"), Err("ErrIncompatSystemd"), Err("ErrNotFound"),
      Err("EACCES"), Err("ExitError") }

\* Values handed to power.Set: every valid threshold as the command line
\* gives it, and strings with white space around them.
SetValues ==
    { Itoa(v) : v \in { n \in ThresholdInputs : IsValid(n) } }
    \cup { <<" ", "8", "0">>, <<"8", "0", "\n">>, <<"F", "u", "l", "l">>, <<>> }

SetVariables == { Threshold, "status" }

\* A host with systemd, a shell and every target, nothing installed, no unit
\* out of reach; main_linux.go, package cli of part_010 ("cli") with
\* power.Get and power.Set, the handlers of part_008 ("cli008") that only
\* consult the controller, or package power called directly.
InitDevice ==
    /\ CallIdle
    /\ tval = 0
    /\ kres = [cli |-> NoResult, main |-> NoResult]
    /\ tok = [done |-> FALSE, IsValid |-> FALSE, valid |-> FALSE]
    /\ impl \in {"main", "cli", "cli008", "power"}
    /\ proc = NoProc /\ argv = NoFlags("none")
    /\ sysd = V244 /\ shellPath = Sh
    /\ targets = <<"graphical", "hibernate", "hybrid-sleep", "multi-user",
                   "suspend", "suspend-then-hibernate">>
    /\ denied = {} /\ broken = {}
    /\ unitFile = [e \in MainEvents |-> Absent] /\ enabled = {}
    /\ IF impl = "cli008"
       THEN supply = One("BAT0", ChargeBattery) /\ sudo = TRUE
       ELSE supply \in Trees /\ sudo \in BOOLEAN
    /\ IF impl \in {"main", "cli"}
       THEN kver \in DeviceReleases
       ELSE kver = <<"5", ".", "4", ".", "0">>
    /\ thresholdFile = FirstThreshold(supply)
    /\ quit \in (IF impl \in {"cli", "cli008"} THEN {"os.Exit", "spy"} ELSE {"os.Exit"})

NextDevice ==
    \/ \E a \in Argvs : MainCommand(a)
    \/ \E a \in Argvs : AppRun(a)
    \/ \E e \in ControllerResults : AppPersist(e)
    \/ \E e \in ControllerResults : AppReset(e)
    \/ \E v \in SetVariables, val \in SetValues : PowerSet(v, val)
    \/ \E v \in SetVariables \cup {"capacity"} : PowerGet(v)

\* MaxRuns command lines, or a call of the package and MaxRuns after it.
SpecDevice == InitDevice /\ [][NextDevice]_vars

\* A host that meets every precondition, with the two-phase controller of
\* systemd.go or its version on top of sync, and some units out of reach.
InitPhases ==
    /\ PureIdle /\ CallIdle /\ DeviceIdle
    /\ impl \in {"systemd", "sync"}
    /\ targets = <<>> /\ proc = NoProc
    /\ sysd = V244 /\ shellPath = Bash /\ thresholdFile = T80
    /\ denied \in SUBSET DeniedCandidates
    /\ broken \in SUBSET BrokenCandidates
    /\ \/ unitFile = [e \in Events |-> Absent] /\ enabled = {}
       \/ unitFile = Installed /\ enabled = Events

NextPhases ==
    \/ \E o \in {"Write", "Reset"} : calls = 0 /\ Call(o)
    \/ Tasks
    \/ Receive
    \/ Exit

\* One command of a two-phase controller.
SpecPhases == InitPhases /\ [][NextPhases]_vars

MaxLive == 3

K54 == <<"5", ".", "4", ".", "0">>
K53 == <<"5", ".", "3", ".", "1", "8">>
T60 == <<"6", "0", "\n">>

LiveThresholds == { 1, 40, 100 }

\* persist, and threshold with a value the program accepts or refuses.
LiveArgvs ==
    { NoFlags("persist") }
    \cup { [flags |-> {}, cmd |-> "threshold", vals |-> <<v>>] :
             v \in { <<"1">>, <<"4", "0">>, <<"1", "0", "0">>, <<"+", "5">>,
                     <<"0">>, <<"a", "b", "c">> } }

\* Hosts on which persist succeeds, with a device that holds 80 or 60;
\* the kernel may be too old for the threshold to be set.
InitLive ==
    /\ CallIdle
    /\ kver \in {K54, K53} /\ tval = 0
    /\ kres = [cli |-> NoResult, main |-> NoResult]
    /\ tok = [done |-> FALSE, IsValid |-> FALSE, valid |-> FALSE]
    /\ proc = NoProc /\ argv = NoFlags("none")
    /\ sysd = V244 /\ denied = {} /\ broken = {} /\ enabled = {}
    /\ sudo = TRUE /\ quit = "os.Exit"
    /\ \/ /\ impl = "services"
          /\ shellPath = Bash /\ targets = <<>> /\ supply = NoBatteries
          /\ thresholdFile \in {T80, T60}
          /\ unitFile = [e \in Events |-> Absent]
       \/ /\ impl = "main"
          /\ shellPath = Sh
          /\ targets = <<"graphical", "hibernate", "hybrid-sleep", "multi-user",
                         "suspend", "suspend-then-hibernate">>
          /\ supply \in {One("BAT0", ChargeBattery), One("BAT0", EnergyBattery)}
          /\ thresholdFile = FirstThreshold(supply)
          /\ unitFile = [e \in MainEvents |-> Absent]

LiveCommand(a) == calls < MaxLive /\ MainStep(a)

NextLive ==
    \/ Call("Write")
    \/ \E e \in Events : Create(e)
    \/ \E e \in Events : Render(e)
    \/ \E e \in Events : Enable(e)
    \/ \E e \in Events : Send(e)
    \/ Receive
    \/ Exit
    \/ \E t \in LiveThresholds : ThresholdSet(t)
    \/ \E a \in LiveArgvs : LiveCommand(a)

\* Sequences of persist and threshold-set commands: up to MaxCalls calls of
\* Service.Write with one threshold.Set among them, or up to MaxLive runs of
\* main_linux.go.
SpecLive == InitLive /\ [][NextLive]_vars

-----------------------------------------------------------------------------
(* C1 - C4: the concurrent controller of services.go.                      *)

\* The command in progress has started its tasks.
FannedOut == ctl \in {"collect", "returned"} /\ cfg # NoCfg

FinishedWork(e) == ~Running(e) \/ Step(e) = "send"

\* Exactly one unit cannot be created and nothing else goes wrong.
OneDenied == Cardinality(denied) = 1 /\ broken = {}

C1_Returned ==
    (op = "Write" /\ FannedOut /\ OneDenied) =>
        /\ ctl = "returned" => ret \in { UnitErr("EACCES", d) : d \in denied }
        /\ \A e \in Events \ denied :
              /\ tres[e] = Nil
              /\ FinishedWork(e) =>
                    /\ unitFile[e] = Rendered(cfg.shell, TargetOf(e), cfg.val)
                    /\ e \in enabled

\* A task stops running only by sending its own result, or when the
\* process ends.
C1_NoCancelStep ==
    \A e \in Events :
        (Running(e) /\ tpc'[e] = <<>>) =>
            \/ Step(e) = "send" /\ errs' = Append(errs, tres[e])
            \/ ctl = "returned" /\ ctl' = "idle"

\* C1: when exactly one of the 5 tasks of Service.Write fails with EACCES on
\* creating its unit file and the other 4 succeed, Write returns that
\* EACCES error, and the other 4 tasks are not cancelled: each of them that
\* ends has created and rendered its unit file and enabled its unit.
C1_PartialFailure == []C1_Returned /\ [][C1_NoCancelStep]_vars

\* Write has returned the EACCES of the one denied unit and the other four
\* units are written and enabled.
C1_Witness ==
    /\ op = "Write" /\ ctl = "returned" /\ OneDenied
    /\ ret.kind = "EACCES" /\ ret.unit \in denied
    /\ \A e \in Events \ denied :
          ~Running(e) /\ unitFile[e].state = "rendered" /\ e \in enabled

\* C2: Service.Write and Service.Delete do not return until all N tasks have
\* reported (barrier semantics), also when some task reports an error.
C2_Barrier == ctl = "returned" => \A e \in Events : ~Running(e)

\* The first element of a sequence of results that is not nil.
RECURSIVE FirstErr(_)
FirstErr(rs) ==
    IF rs = <<>> THEN Nil
    ELSE IF Head(rs) # Nil THEN Head(rs)
    ELSE FirstErr(Tail(rs))

\* C3: Service.Write and Service.Delete return nil if and only if all N
\* tasks reported nil; otherwise the returned error is the first non-nil
\* result in the order in which the tasks sent them, an error some task
\* produced.
C3_FirstError ==
    (ctl = "returned" /\ recvd # <<>>) =>
        LET sent == recvd \o errs
        IN  /\ ret = Nil <=> (Len(sent) = N /\ \A i \in 1..N : sent[i] = Nil)
            /\ ret = FirstErr(sent)
            /\ ret # Nil => \E e \in Events : ~Running(e) /\ tres[e] = ret

\* Two tasks failed with different errors; the one that sent first decided
\* the result and the other error is still in the channel.
C3_Witness ==
    /\ ctl = "returned" /\ ret.kind = "ExitError"
    /\ \E i \in 1..Len(errs) : errs[i].kind = "EACCES"

\* C4: a Delete that follows a successful Delete succeeds too: every unit
\* file is already absent and every unit unknown to systemd, and no task
\* reports either condition as an error.
C4_ResetTwice ==
    (op = "Delete" /\ prev.op = "Delete" /\ prev.ret = Nil) =>
        /\ \A e \in Events : unitFile[e] = Absent /\ e \notin enabled
        /\ \A e \in Events : tres[e] = Nil
        /\ ctl = "returned" => ret = Nil

\* The second of two Deletes in a row has returned nil.
C4_Witness ==
    /\ op = "Delete" /\ prev.op = "Delete" /\ prev.ret = Nil
    /\ ctl = "returned" /\ ret = Nil /\ calls = 2

-----------------------------------------------------------------------------
(* C5: reset after persist.                                                *)

\* No unit file is left and no unit is enabled.
Clean ==
    /\ \A e \in DOMAIN unitFile : unitFile[e] = Absent
    /\ enabled = {}

\* Service.Write returned nil and the Service.Delete after it has too.
ServiceUndone ==
    /\ impl = "services"
    /\ prev.op = "Write" /\ prev.ret = Nil
    /\ op = "Delete" /\ ctl = "returned" /\ ret = Nil

\* `bat persist` reported success and the `bat reset` after it has too.
MainUndone ==
    /\ impl = "main"
    /\ prev.op = "persist" /\ prev.ret = Done("persist", "PersistenceEnabled")
    /\ proc = Done("reset", "PersistenceReset")

\* C5: after a successful persist followed by a successful reset (Write and
\* Delete of services.go, persist and reset of main_linux.go) no unit file
\* of any of the events remains and no unit is left enabled.
C5_ResetUndoesPersist == (ServiceUndone \/ MainUndone) => Clean

\* Delete has returned nil after a Write that wrote and enabled every unit.
C5_Witness == ServiceUndone /\ Clean /\ calls = 2

-----------------------------------------------------------------------------
(* C6 - C8: the preconditions of persist and of reset.                     *)

\* C6: Systemd.Reset does not depend on the preconditions of persist: with
\* the shell missing, the version below the minimum, or the threshold file
\* absent or unparsable, it still removes and disables every unit and
\* returns nil.
C6_ResetIndependent ==
    (impl = "systemd" /\ op = "Reset" /\ ctl = "returned") =>
        /\ ret = Nil
        /\ Clean

\* A persist has come to its end.
PersistReturned ==
    \/ impl \in {"services", "systemd"} /\ op = "Write" /\ ctl = "returned"
    \/ impl = "main" /\ proc.cmd = "persist"

\* The precondition the persist that has ended reported as failing.
ReportedCause ==
    IF impl = "main"
    THEN (IF proc.err = "ThresholdNotFound" THEN "NotFound"
          ELSE IF proc.err = "IncompatSystemd" THEN "IncompatibleServiceManager"
          ELSE IF proc.err = "ShellNotFound" THEN "ShellNotFound"
          ELSE IF proc.panic = "strconv.Atoi" THEN "ThresholdUnreadable"
          ELSE "other")
    ELSE (IF ret.kind = "ErrNotFound" THEN "NotFound"
          ELSE IF ret.kind = "ErrIncompatSystemd" THEN "IncompatibleServiceManager"
          ELSE IF ret.kind = "ErrBashNotFound" THEN "ShellNotFound"
          ELSE IF ret.kind = "ErrSyntax" THEN "ThresholdUnreadable"
          ELSE "other")

\* The earliest failing precondition of a host with version n, in the
\* order file exists, version, shell, value.
FirstFailing(n) ==
    IF thresholdFile = NoFile THEN "NotFound"
    ELSE IF n < MinSystemd THEN "IncompatibleServiceManager"
    ELSE IF shellPath = NoShell THEN "ShellNotFound"
    ELSE IF ~Atoi(TrimSpace(thresholdFile)).ok THEN "ThresholdUnreadable"
    ELSE "none"

\* C7: persist checks its preconditions in the order threshold file exists,
\* version at least the minimum, shell found, threshold value read; when
\* several fail at once, the error reported is that of the earliest one.
C7_PreconditionOrder ==
    \A n \in SystemdVersions, st \in VersionStyles :
        (sysd = VersionOutput(n, st) /\ PersistReturned
            /\ FirstFailing(n) # "none") =>
            ReportedCause = FirstFailing(n)

\* A step of a persist: of Service.Write and its tasks, or a run of
\* `bat persist`.
PersistStep ==
    \/ impl = "services" /\ (op = "Write" \/ op' = "Write")
    \/ impl = "main" /\ calls' # calls /\ proc'.cmd = "persist"

\* Below the minimum a persist leaves the unit files and the enabled units
\* as they were.
C8_NothingCreated ==
    \A n \in SystemdVersions, st \in VersionStyles :
        (sysd = VersionOutput(n, st) /\ n < MinSystemd /\ PersistStep) =>
            UNCHANGED <<unitFile, enabled>>

\* Service.Write starts its tasks only at 244 or above and returns
\* ErrIncompatSystemd below.
C8_ServiceGate(n) ==
    (impl = "services" /\ op = "Write") =>
        /\ FannedOut => n >= MinSystemd
        /\ n < MinSystemd =>
              /\ ctl = "returned" /\ ret = Err("ErrIncompatSystemd")
              /\ \A e \in Events : ~Running(e)

\* `bat persist` succeeds only at 244 or above; below, it exits with status
\* 1, and with the message of the version check when the threshold file
\* exists.
C8_MainGate(n) ==
    (impl = "main" /\ proc.cmd = "persist") =>
        /\ proc.out = "PersistenceEnabled" => n >= MinSystemd
        /\ n < MinSystemd =>
              /\ proc.code = 1
              /\ thresholdFile # NoFile => proc.err = "IncompatSystemd"
              /\ thresholdFile = NoFile => proc.err = "ThresholdNotFound"

C8_MainAlwaysIncompat(n) ==
    (impl = "main" /\ proc.cmd = "persist") =>
        /\ proc.out = "PersistenceEnabled" => n >= MinSystemd
        /\ n < MinSystemd => proc.code = 1 /\ proc.err = "IncompatSystemd"

-----------------------------------------------------------------------------
(* C12, C19: what a persist leaves in the unit files.                      *)

\* C12: every threshold embedded in a unit file is an integer of 1..100;
\* persist validates the value read from the device before it generates the
\* units and creates no unit file for a value outside the range.
C12_EmbeddedValid ==
    \A e \in DOMAIN unitFile :
        unitFile[e].state = "rendered" => unitFile[e].Threshold \in 1..100

\* The events and their targets, as the specification lists them.
FixedPairs ==
    { <<"boot", "multi-user">>, <<"hibernation", "hibernate">>,
      <<"hybridsleep", "hybrid-sleep">>, <<"sleep", "suspend">>,
      <<"suspendthenhibernate", "suspend-then-hibernate">> }

\* Service.Write has returned nil.
WriteSucceeded ==
    impl = "services" /\ op = "Write" /\ ctl = "returned" /\ ret = Nil

\* C19: after Service.Write returned nil, for each of the five events the
\* unit file exists, rendered for the target paired with the event, and the
\* unit is enabled; there is no file of any other name.
C19_UnitsAfterPersist ==
    WriteSucceeded =>
        /\ DOMAIN unitFile = { p[1] : p \in FixedPairs }
        /\ \A p \in FixedPairs :
              /\ unitFile[p[1]] = Rendered(cfg.shell, p[2], cfg.val)
              /\ p[1] \in enabled

\* The first command of a run, a Write, has returned nil.
C19_Witness ==
    /\ WriteSucceeded /\ calls = 1
    /\ \A e \in Events : unitFile[e].state = "rendered" /\ e \in enabled

-----------------------------------------------------------------------------
(* C11: the arguments of the threshold command.                            *)

\* The device of the host has a threshold file where the program looks.
Supports(t) ==
    /\ GlobFile(t, Threshold) # <<>>
    /\ impl = "main" => FirstThreshold(t) # NoFile

\* The step runs `threshold` with at least one value on such a host, whose
\* kernel release can be scanned.
ThresholdSetStep ==
    /\ impl \in {"main", "cli"}
    /\ argv'.cmd = "threshold" /\ argv'.flags = {} /\ argv'.vals # <<>>
    /\ Supports(supply)
    /\ ~requiredKernel(kver).err

ReportsOnly(msgs) ==
    /\ proc'.code = 1 /\ proc'.err \in msgs /\ proc'.out = "-"
    /\ supply' = supply

\* C11: the threshold command writes the device file only when it is given
\* exactly one value that parses as an integer in 1..100 and the kernel gate
\* passes; with more than one value, a value that is not an integer or one
\* that is out of range it reports the message of that cause on the standard
\* error, exits with status 1 and writes nothing.
C11_ThresholdArguments ==
    [][ThresholdSetStep =>
         LET vals == argv'.vals
             i    == Atoi(vals[1])
             gate == requiredKernel(kver)
         IN  /\ supply' # supply =>
                  /\ Len(vals) = 1 /\ i.ok /\ valid(i.val)
                  /\ ~gate.err /\ gate.ok
             /\ Len(vals) > 1 =>
                  ReportsOnly({"ExpectedSingleArg", "InvalidArguments"})
             /\ (Len(vals) = 1 /\ ~i.ok /\ ~i.range) => ReportsOnly({"ArgNotInt"})
             /\ (Len(vals) = 1 /\ i.ok /\ ~valid(i.val)) => ReportsOnly({"OutOfRange"})
             /\ (Len(vals) = 1 /\ i.range) =>
                  ReportsOnly({"ArgNotInt", "OutOfRange", "log.Fatal"})]_vars

-----------------------------------------------------------------------------
(* C14: reading a variable no battery has.                                 *)

\* C14: Get fails with ErrNotFound, and never succeeds with an empty
\* value, when no battery directory holds the variable.
C14_GetNotFound ==
    (impl = "power" /\ proc.cmd = "Get" /\ GlobFile(supply, proc.out) = <<>>)
        => proc.err = "ErrNotFound"

-----------------------------------------------------------------------------
(* C18: the files the health command divides.                              *)

\* The health command of main_linux.go has run on the first battery.
HealthRan == impl = "main" /\ proc.cmd = "health" /\ Glob(supply) # <<>>

Pair(t, root, full, design) ==
    Itoa((Atoi(read(t, root, full).val).val * 100)
            \div Atoi(read(t, root, design).val).val)

\* C18: health is computed from charge_full and charge_full_design when both
\* exist, and from energy_full and energy_full_design whenever one of the
\* charge files is absent, charge_full_design alone included.
C18_HealthFallback ==
    HealthRan =>
        LET root   == Glob(supply)[1]
            charge == has(supply, root, "charge_full")
                        /\ has(supply, root, "charge_full_design")
            energy == has(supply, root, "energy_full")
                        /\ has(supply, root, "energy_full_design")
        IN  /\ charge =>
                 proc = Printed("health", Pair(supply, root, "charge_full",
                                               "charge_full_design"))
            /\ (~charge /\ energy) =>
                 proc = Printed("health", Pair(supply, root, "energy_full",
                                               "energy_full_design"))

-----------------------------------------------------------------------------
(* C13: writing a variable and reading it back.                            *)

\* Get(v) was called right after a Set(v, val) that returned nil.
ReadBack ==
    /\ impl = "power" /\ proc.cmd = "Get"
    /\ prev.op = "Set" /\ prev.ret.err = "-" /\ prev.ret.out = proc.out

\* C13 as stated: Get returns exactly the value the Set before it wrote,
\* for every variable and every value.
C13_RoundTrip == ReadBack => (proc.err = "-" /\ proc.val = prev.ret.val)

\* C13: Get returns the value the Set before it wrote with the white space
\* around it removed; a value without such white space, every threshold
\* of 1..100 in decimal among them, comes back unchanged.
C13_RoundTripTrimmed ==
    ReadBack =>
        /\ proc.err = "-"
        /\ proc.val = TrimSpace(prev.ret.val)
        /\ TrimSpace(prev.ret.val) = prev.ret.val => proc.val = prev.ret.val
        /\ \A n \in ThresholdInputs :
             (IsValid(n) /\ prev.ret.val = Itoa(n)) =>
                 (Atoi(proc.val).ok /\ Atoi(proc.val).val = n)

C13_Witness ==
    /\ ReadBack /\ proc.out = Threshold
    /\ prev.ret.val = Itoa(100) /\ proc.val = Itoa(100)

-----------------------------------------------------------------------------
(* C15: which battery the commands work on.                                *)

\* The variable a command line reads or writes.
VariableOf(cmd) == IF cmd = "threshold" THEN Threshold ELSE cmd

\* C15: without a battery directory the commands report the incompatible
\* device and read and write nothing; with one or more they read and
\* write the files of the first directory in lexicographic order only.
C15_FirstBattery ==
    [][(/\ impl \in {"main", "cli"}
        /\ argv'.flags = {}
        /\ argv'.cmd \in {"capacity", "status", "threshold"})
        => LET bats == Glob(supply)
               v    == VariableOf(argv'.cmd)
           IN  /\ bats = <<>> =>
                    /\ proc'.code = 1 /\ proc'.err = "Incompatible"
                    /\ proc'.out = "-" /\ supply' = supply
               /\ bats # <<>> =>
                    /\ \A b \in DOMAIN supply \ {bats[1]} : supply'[b] = supply[b]
                    /\ proc'.out = "value" =>
                         /\ supply[bats[1]][v] # NoFile
                         /\ proc'.val = TrimSpace(supply[bats[1]][v])]_vars

-----------------------------------------------------------------------------
(* C16: what persist and reset of package cli report.                      *)

\* app.persist or app.reset has run; ret is what the controller returned.
Handled(cmd) == impl \in {"cli", "cli008"} /\ proc.cmd = cmd

OneReport(code, out, err) == proc.code = code /\ proc.out = out /\ proc.err = err

\* C16: a nil result is reported as success on the standard output with
\* status 0; ErrBashNotFound, ErrIncompatSystemd, ErrNotFound and EACCES
\* are each reported with their own message on the standard error with
\* status 1 and without the success message.
C16_OneReport ==
    /\ Handled("persist") =>
         /\ ret = Nil => OneReport(0, "PersistenceEnabled", "-")
         /\ PersistMessage(ret) # "-" => OneReport(1, "-", PersistMessage(ret))
    /\ Handled("reset") =>
         /\ ret = Nil => OneReport(0, "PersistenceReset", "-")
         /\ ret.kind = "EACCES" => OneReport(1, "-", "PermissionDenied")

-----------------------------------------------------------------------------
(* C17: the exit status.                                                   *)

\* C17: a run exits with status 0 when it succeeded and with status 1 when
\* it reported a failure: permission denied, an incompatible system or
\* version, or a missing, unknown or malformed command or argument.
C17_ExitStatus ==
    (impl \in {"main", "cli"} /\ proc.cmd # "none") =>
        proc.code = (IF proc.err = "-" THEN 0 ELSE 1)

-----------------------------------------------------------------------------
(* C20: the threshold a persist embeds.                                    *)

\* The value the device holds.
DeviceValue == Atoi(TrimSpace(thresholdFile)).val

\* persist of main_linux.go has succeeded.
PersistSucceeded == impl = "main" /\ proc = Done("persist", "PersistenceEnabled")

\* A step of a threshold-set command.
SetStep ==
    \/ impl = "main" /\ calls' = calls + 1 /\ argv'.cmd = "threshold"
    \/ impl = "services" /\ tval' # tval
    \/ thresholdFile' # thresholdFile

\* C20: in every sequence of threshold-set and persist commands, the units
\* of a persist that succeeded embed the value the device holds at that
\* time, and a threshold-set leaves the unit files and the enabled units
\* as they are.
C20_LiveValue ==
    /\ [](WriteSucceeded =>
            \A e \in Events :
                unitFile[e].state = "rendered" /\ unitFile[e].Threshold = DeviceValue)
    /\ [](PersistSucceeded =>
            \A e \in MainEvents :
                unitFile[e].state = "rendered" /\ unitFile[e].Threshold = DeviceValue)
    /\ [][SetStep => (unitFile' = unitFile /\ enabled' = enabled)]_vars

\* The threshold was set to 40 and persisted, then set to 100: the units
\* still hold 40.
C20_Witness ==
    /\ impl = "main" /\ proc = Done("threshold", "ThresholdSet")
    /\ prev.op = "persist" /\ prev.ret = Done("persist", "PersistenceEnabled")
    /\ DeviceValue = 100
    /\ \A e \in MainEvents : unitFile[e].state = "rendered" /\ unitFile[e].Threshold = 40

-----------------------------------------------------------------------------
(* C21: a persist that fails takes nothing back.                           *)

\* A step of Service.Write, its tasks included, or a run of persist of
\* main_linux.go.
PersistActs ==
    \/ impl = "services" /\ op = "Write"
    \/ impl = "main" /\ calls' = calls + 1 /\ proc'.cmd = "persist"

\* C21: persist performs no rollback: no step of a persist, failing or not,
\* removes a unit file that exists or disables a unit that is enabled, so
\* what the call created and enabled for other events is still there when
\* it reports the failure of one event.
C21_NoRollback ==
    [][PersistActs =>
         \A e \in DOMAIN unitFile :
            /\ unitFile[e].state # "absent" => unitFile'[e].state # "absent"
            /\ e \in enabled => e \in enabled']_vars

\* Service.Write has reported that one unit file could not be created; that
\* file is absent, and another unit was created and enabled by the call.
C21_Witness ==
    /\ impl = "services" /\ op = "Write" /\ ctl = "returned"
    /\ ret.kind = "EACCES" /\ unitFile[ret.unit].state = "absent"
    /\ \E e \in Events : unitFile[e].state = "rendered" /\ e \in enabled

-----------------------------------------------------------------------------
(* C22: what a task of Systemd.remove reports.                             *)

\* The task of e takes its remove step.
RemoveStep(e) ==
    /\ impl \in {"systemd", "sync"} /\ op = "Reset"
    /\ Step(e) = "remove" /\ tpc'[e] # tpc[e]

\* C22: in the removal phase of Reset, a task whose unit file does not
\* exist reports success and a task whose removal fails for another reason
\* reports that error, which Reset then returns to its caller.
C22_RemoveReports ==
    /\ [][\A e \in Events :
            RemoveStep(e) =>
                /\ RemoveErr(e).kind \in {"nil", "ENOENT"} => tres'[e] = Nil
                /\ RemoveErr(e).kind = "EACCES" => tres'[e] = RemoveErr(e)]_vars
    /\ []((impl \in {"systemd", "sync"} /\ op = "Reset" /\ ctl = "returned"
              /\ ret = Nil)
            => \A e \in Events : unitFile[e].state = "absent")

-----------------------------------------------------------------------------
(* C23: the unit configurations are a function of the host.                *)

\* The task of e takes its render step.
RenderStep(e) == Step(e) = "render" /\ tpc'[e] # tpc[e]

-----------------------------------------------------------------------------
(* C24: the order of the steps of one task of persist.                     *)

\* A task of Service.Write is at work.
InWrite == impl = "services" /\ op = "Write" /\ ctl \in {"collect", "returned"}

\* The task of e has stopped at os.Create.
FailedAtCreate(e) == tres[e].kind = "EACCES"

\* The task of e takes its enable step.
EnableStep(e) == Step(e) = "enable" /\ tpc'[e] # tpc[e]

-----------------------------------------------------------------------------
(* C25: every task works on the unit file of its own event.                *)

\* The unit files a step changes.
Touched == { e \in Events : unitFile'[e] # unitFile[e] }

\* C25: the events of the units are pairwise distinct, and in a Write or a
\* Delete a unit file is created, written or removed only by a step of the
\* task of its own event, so no two tasks work on the same path.
C25_OwnFile ==
    /\ [](Cardinality(Events) = N)
    /\ [][(impl = "services" /\ op \in {"Write", "Delete"}) =>
            /\ Cardinality(Touched) <= 1
            /\ \A e \in Touched :
                  /\ Step(e) \in {"create", "render", "remove"}
                  /\ tpc'[e] # tpc[e]
                  /\ \A f \in Events \ {e} : tpc'[f] = tpc[f]]_vars

\* Two tasks of one call are at work on their files at the same time.
C25_Witness ==
    /\ impl = "services" /\ ctl = "collect"
    /\ \E e, f \in Events :
          /\ e # f
          /\ Step(e) = "render" /\ unitFile[e] = Empty
          /\ Step(f) \in {"create", "render"}

-----------------------------------------------------------------------------
(* C26: the units persist of main_linux.go creates.                        *)

\* A run of persist of main_linux.go.
MainPersistStep == impl = "main" /\ calls' = calls + 1 /\ proc'.cmd = "persist"

\* The targets the service manager reports.
Listed == { targets[i] : i \in 1..Len(targets) }

\* C26: persist of main_linux.go creates and enables the unit of an event
\* if and only if the event is one of the fixed list and a target of its
\* name is reported by the service manager: a run touches no unit of
\* another event, and a run that succeeds has rendered and enabled the unit
\* of every reported event.
C26_ListedTargets ==
    [][MainPersistStep =>
         /\ DOMAIN unitFile' = MainEvents
         /\ \A e \in MainEvents :
               /\ (unitFile'[e] # unitFile[e] \/ (e \in enabled' /\ e \notin enabled))
                     => e \in Listed
               /\ (proc' = Done("persist", "PersistenceEnabled") /\ e \in Listed)
                     => /\ unitFile'[e] = Rendered(shellPath, e, DeviceValue)
                        /\ e \in enabled'
               /\ e \notin Listed =>
                     /\ unitFile'[e] = unitFile[e]
                     /\ e \in enabled' <=> e \in enabled]_vars

\* persist has succeeded on a host that reports two of the five targets.
C26_Witness ==
    /\ PersistSucceeded /\ calls = 1
    /\ Listed \cap MainEvents = {"multi-user", "suspend"}
    /\ \A e \in MainEvents :
          IF e \in Listed THEN unitFile[e].state = "rendered" /\ e \in enabled
          ELSE unitFile[e].state = "absent" /\ e \notin enabled

-----------------------------------------------------------------------------
(* C27: the two phases of Systemd.Write.                                   *)

\* Systemd.Write is at work.
TwoPhaseWrite ==
    impl \in {"systemd", "sync"} /\ op = "Write" /\ ctl \in {"collect", "returned"}

\* Every unit file holds the configuration of the command.
AllWritten == \A f \in Events : unitFile[f] = Rendered(cfg.shell, TargetOf(f), cfg.val)

\* C27: Systemd.Write invokes enable on no unit before all unit files have
\* been written, and when the write of a unit file has failed the call
\* enables no unit.
C27_WriteThenEnable ==
    /\ []((TwoPhaseWrite /\ \E e \in Events : Step(e) = "enable") => AllWritten)
    /\ [][TwoPhaseWrite =>
            /\ (\E e \in Events : e \in enabled' /\ e \notin enabled) => AllWritten
            /\ (\E e \in Events : tres[e].kind = "EACCES") => enabled' = enabled]_vars

\* The second fan-out is under way on a host that had no unit: one unit is
\* enabled, another is about to be.
C27_Witness ==
    /\ TwoPhaseWrite /\ AllWritten
    /\ \E e, f \in Events :
          /\ Step(e) = "enable" /\ e \notin enabled
          /\ f \in enabled /\ ~Running(f)

-----------------------------------------------------------------------------
(* C28: one result from every task, into a channel with room for all.      *)

\* The tasks of the command in progress have been started.
Started == ctl = "collect" \/ (ctl = "returned" /\ recvd # <<>>)

-----------------------------------------------------------------------------
(* C29: the exit status of main_linux.go.                                  *)

\* C29: a run of main_linux.go ends with status 0 only when the command
\* completed without an error; a run that panicked ends with a status other
\* than 0.
C29_ZeroOnlyOnSuccess ==
    (impl = "main" /\ proc.cmd # "none" /\ proc.code = 0) =>
        (proc.err = "-" /\ proc.panic = "-")

-----------------------------------------------------------------------------
(* C30: persist repeated.                                                  *)

\* The unit files and the enabled units a successful Service.Write leaves on
\* this host.
WrittenUnits ==
    [e \in Events |->
        Rendered(ServiceWritePrelude.shell, TargetOf(e), ServiceWritePrelude.val)]

\* A run of persist of main_linux.go that follows a successful one and
\* succeeds too.
PersistAgain ==
    /\ PersistSucceeded
    /\ MainPersistStep
    /\ proc' = Done("persist", "PersistenceEnabled")

\* C30: with the threshold unchanged, a successful persist that follows a
\* successful persist leaves the unit files, their contents and the enabled
\* units as the first left them: every successful Service.Write, the first
\* and the second, ends with the files and the enabled units the host
\* determines, and a repeated persist of main_linux.go changes neither.
C30_Idempotent ==
    /\ [](WriteSucceeded => (unitFile = WrittenUnits /\ enabled = Events))
    /\ [][PersistAgain => (unitFile' = unitFile /\ enabled' = enabled)]_vars

\* Service.Write has returned nil for the second time in a row.
C30_Witness ==
    /\ WriteSucceeded /\ calls = MaxCalls
    /\ prev.op = "Write" /\ prev.ret = Nil /\ prev.complete
    /\ unitFile = WrittenUnits /\ enabled = Events

====
